---------------------------- MODULE Spec2Model ----------------------------
(***************************************************************************)
(* Migration audit backend: the URL correspondence resolver (compareUrls), *)
(* the bounded-concurrency probe executor (checkMultipleUrls) and the      *)
(* pipeline controller (startProcessing / processProject).                 *)
(*                                                                         *)
(* Several specifications share the module's variables:                    *)
(*   SpecUrls      one call of compareUrls on inputs drawn from OldPool,   *)
(*                 NewPool and RedirectMaps                                *)
(*   SpecProbe     one checkMultipleUrls batch, its tasks interleaved      *)
(*   SpecPipeline  startProcessing requests and processProject runs on     *)
(*                 one Project document                                    *)
(*   SpecRun       a single startProcessing request and its run            *)
(*   SpecRunFair   SpecRun where every awaited call settles                *)
(*   SpecBrowser   one serial batch of calls that launch a headless browser*)
(*   SpecSelect    one call of selectImportantUrls                         *)
(*   SpecScore     one call of compareSEOData / calculateMatchScore        *)
(*   SpecCategorize  categorizeResults and findBrokenLinks on one list     *)
(*   SpecImprove   one call of calculateImprovement and assessChange       *)
(*   SpecSitemap   one top-level call of parseSitemap                      *)
(*   SpecNormalize normalizeUrl applied twice                              *)
(*   SpecSummary   generateSummary on a list of SEO comparisons            *)
(*   SpecPerformance  comparePerformance on the audits of the selected     *)
(*                 pairs                                                   *)
(*   SpecAudit     one runAuditProcess on its Audit record                 *)
(* Each leaves the other parts' variables untouched.                       *)
(***************************************************************************)
EXTENDS Integers, Sequences, FiniteSets, TLC

VARIABLES
    cuOld,        \* compareUrls: argument oldUrls (sequence of strings)
    cuNew,        \* compareUrls: argument newUrls
    cuMap,        \* compareUrls: argument redirectMap (NullMap or a Map)
    cuPc,         \* "call" before the call, "returned" after it
    cuResult      \* the report compareUrls returned

urlVars == <<cuOld, cuNew, cuMap, cuPc, cuResult>>

VARIABLES
    pbUrls,       \* checkMultipleUrls: argument urls
    pbConcurrency,\* options.concurrency
    pbRetry,      \* options.retryAttempts
    pbDelay,      \* options.delay, in ms
    pbHasProgress,\* options.onProgress is a function
    pbPc,         \* "idle", "adding" (the for loop), "awaiting", "resolved"
    pbNext,       \* the for loop's position in urls
    tSt,          \* per task: "new", "queued", "probing", "backoff",
                  \*   "callback", "trailing", "done"
    tAttempts,    \* per task: the local attempts
    tResult,      \* per task: the local result
    results,      \* the results array
    completed,    \* the completed counter
    tHist,        \* per task: the status codes of its finished attempts
    tInflight,    \* per task: calls of checkUrlStatus not yet returned
    tSleeps,      \* per task: the backoff sleeps, in ms
    tSlot,        \* per task: the place in results of its entry, 0 before
    progressLog,  \* the arguments of the onProgress calls, in call order
    cbActive      \* onProgress calls that have not returned

probeVars == <<pbUrls, pbConcurrency, pbRetry, pbDelay, pbHasProgress, pbPc,
               pbNext, tSt, tAttempts, tResult, results, completed, tHist,
               tInflight, tSleeps, tSlot, progressLog, cbActive>>

VARIABLES
    db,           \* the stored Project: status, processingStatus.stage/.progress
    prPc,         \* per request: where its handler / its processProject run is
    prK,          \* per request: the stage its run is in (index of Stages)
    prDoc,        \* per request: the document in memory and its modified paths
    prSaves,      \* per request: the stored Project after its last two saves
    prErr,        \* per request: the error its try block threw last
    files,        \* the uploaded inputs the Project has (a set of names)
    down          \* the URLs that cannot be fetched, crawled or audited

pipeVars == <<db, prPc, prK, prDoc, prSaves, prErr, files, down>>

VARIABLES
    bwFn,         \* the browser-launching function the batch calls
    bwUrls,       \* the urls of the batch
    bwI,          \* the batch loop's position in urls
    bwPc,         \* "loop", "mkdir", "launch", "page", "viewports", "catch",
                  \*   "finally", "returned", "thrown", "done"
    bwBrowser,    \* the local browser / chrome: 0 while undefined
    bwOpen,       \* the browser processes that are running
    bwLaunched,   \* how many browsers have been launched
    bwViewports,  \* testMobileResponsiveness: viewportResults of this call
    bwOutcome,    \* how the call is about to complete
    bwResults     \* the batch's results array

browserVars == <<bwFn, bwUrls, bwI, bwPc, bwBrowser, bwOpen, bwLaunched,
                 bwViewports, bwOutcome, bwResults>>

VARIABLES
    fnArgs,       \* the arguments of one call of a synchronous service function
    fnPc,         \* "call" before the call, "returned" after it
    fnResult      \* what the call returned

fnVars == <<fnArgs, fnPc, fnResult>>

vars == <<urlVars, probeVars, pipeVars, browserVars, fnVars>>

nonUrlVars == <<probeVars, pipeVars, browserVars, fnVars>>
nonProbeVars == <<urlVars, pipeVars, browserVars, fnVars>>
nonPipeVars == <<urlVars, probeVars, browserVars, fnVars>>
nonBrowserVars == <<urlVars, probeVars, pipeVars, fnVars>>
nonFnVars == <<urlVars, probeVars, pipeVars, browserVars>>

-----------------------------------------------------------------------------
(* Bounds of the model *)

MaxOld == 2
MaxNew == 1
MaxMap == 1
MaxUrls == 2
MaxConcurrency == 2
MaxRetry == 3
MaxRequests == 2
MaxBatch == 2
MaxPairs == 3
MaxLong == 11
MaxGsc == 2
MaxBudget == 2
MaxH1 == 2
MaxResults == 2
MaxMetric == 8
MaxLocs == 2
MaxDepth == 6
MaxComparisons == 2
MaxTested == 2

SeqsUpTo(S, n) == UNION {[1..k -> S] : k \in 0..n}

\* the sequences without a repeated element: Array.from(new Set(...))
DistinctSeqsUpTo(S, n) ==
    {q \in SeqsUpTo(S, n) : \A i, j \in 1..Len(q) : q[i] = q[j] => i = j}

Min2(a, b) == IF a < b THEN a ELSE b

-----------------------------------------------------------------------------
(* Strings that are used as URLs.  A string is kept as the four parts the  *)
(* WHATWG parser would cut it into, written as they stand in the text:     *)
(* protocol ("" when the text has no scheme and new URL() throws), the     *)
(* host labels with their case, the path characters (possibly none) and    *)
(* the query.  Two records are equal exactly when the texts are equal.     *)

Str(protocol, hostname, pathname, search) ==
    [protocol |-> protocol, hostname |-> hostname,
     pathname |-> pathname, search |-> search]

\* null / the empty string
NoUrl == Str("", <<>>, <<>>, "")

\* new URL(s) throws
Throws(s) == s.protocol = ""

Lower(label) ==
    CASE label = "WWW" -> "www"
      [] label = "Old" -> "old"
      [] OTHER -> label

\* new URL(s): host lower-cased, an absent path read as "/"
ParseUrl(s) ==
    [protocol |-> s.protocol,
     hostname |-> [i \in 1..Len(s.hostname) |-> Lower(s.hostname[i])],
     pathname |-> IF s.pathname = <<>> THEN <<"/">> ELSE s.pathname,
     search   |-> s.search]

\* pathname.endsWith('/') && pathname.length > 1 ? pathname.slice(0, -1)
StripSlash(pathname) ==
    IF Len(pathname) > 1 /\ pathname[Len(pathname)] = "/"
    THEN SubSeq(pathname, 1, Len(pathname) - 1)
    ELSE pathname

\* hostname.replace(/^www\./, '')
StripWww(hostname) ==
    IF Len(hostname) > 1 /\ hostname[1] = "www"
    THEN Tail(hostname)
    ELSE hostname

normalizeUrl(url) ==
    IF Throws(url) THEN url
    ELSE LET urlObj == ParseUrl(url)
         IN  Str(urlObj.protocol, StripWww(urlObj.hostname),
                 StripSlash(urlObj.pathname), "")

-----------------------------------------------------------------------------
(* The strings the inputs are drawn from *)

UA   == Str("http:", <<"old", "site">>, <<"/", "a">>, "")
UAs  == Str("http:", <<"old", "site">>, <<"/", "a", "/">>, "")
UAw  == Str("http:", <<"www", "Old", "site">>, <<"/", "a">>, "?q")
UB   == Str("http:", <<"old", "site">>, <<"/", "b">>, "")
URoot == Str("http:", <<"old", "site">>, <<>>, "")
UBad == Str("", <<>>, <<"a">>, "")

OldPool == {UA, UAs, UAw, UB, UBad}
NewPool == {UA, UB, URoot}
KeyPool == {UA, UAs, UB}

\* redirectMap = null
NullMap == [isNull |-> TRUE, keys |-> {}, get |-> [k \in {} |-> NoUrl]]

MakeMap(f) == [isNull |-> FALSE, keys |-> DOMAIN f, get |-> f]

RedirectMaps ==
    {NullMap} \cup
    {MakeMap(f) : f \in UNION {[K -> NewPool] :
                        K \in {S \in SUBSET KeyPool : Cardinality(S) <= MaxMap}}}

-----------------------------------------------------------------------------
(* compareUrls and its helpers *)

\* new Map(pairs): a key keeps the place of its first insertion and the
\* value of its last
RECURSIVE MapFromPairs(_, _)
MapFromPairs(pairs, acc) ==
    IF pairs = <<>> THEN acc
    ELSE LET p == Head(pairs)
             hit == {i \in 1..Len(acc) : acc[i].key = p.key}
         IN  IF hit = {}
             THEN MapFromPairs(Tail(pairs), Append(acc, p))
             ELSE MapFromPairs(Tail(pairs),
                      [i \in 1..Len(acc) |-> IF i \in hit THEN p ELSE acc[i]])

\* new Set(items) in insertion order
RECURSIVE SetFromSeq(_, _)
SetFromSeq(items, acc) ==
    IF items = <<>> THEN acc
    ELSE IF \E i \in 1..Len(acc) : acc[i] = Head(items)
         THEN SetFromSeq(Tail(items), acc)
         ELSE SetFromSeq(Tail(items), Append(acc, Head(items)))

Range(s) == {s[i] : i \in 1..Len(s)}

RECURSIVE levenshteinDistance(_, _)
levenshteinDistance(str1, str2) ==
    IF str1 = <<>> THEN Len(str2)
    ELSE IF str2 = <<>> THEN Len(str1)
    ELSE IF Head(str1) = Head(str2)
         THEN levenshteinDistance(Tail(str1), Tail(str2))
         ELSE 1 + Min2(levenshteinDistance(Tail(str1), Tail(str2)),
                       Min2(levenshteinDistance(str1, Tail(str2)),
                            levenshteinDistance(Tail(str1), str2)))

\* the similarity as a fraction <<numerator, denominator>>
calculateSimilarity(str1, str2) ==
    LET longer  == IF Len(str1) > Len(str2) THEN str1 ELSE str2
        shorter == IF Len(str1) > Len(str2) THEN str2 ELSE str1
    IN  IF Len(longer) = 0 THEN <<1, 1>>
        ELSE <<Len(longer) - levenshteinDistance(longer, shorter), Len(longer)>>

FracGt(x, y) == x[1] * y[2] > y[1] * x[2]

RECURSIVE SimilarLoop(_, _, _, _)
SimilarLoop(targetPath, candidateUrls, maxSimilarity, mostSimilar) ==
    IF candidateUrls = <<>> THEN mostSimilar
    ELSE LET candidateUrl == Head(candidateUrls)
         IN  IF Throws(candidateUrl)
             THEN SimilarLoop(targetPath, Tail(candidateUrls),
                              maxSimilarity, mostSimilar)
             ELSE LET similarity ==
                          calculateSimilarity(targetPath,
                                              ParseUrl(candidateUrl).pathname)
                  IN  IF FracGt(similarity, maxSimilarity)
                         /\ FracGt(similarity, <<1, 2>>)
                      THEN SimilarLoop(targetPath, Tail(candidateUrls),
                                       similarity, candidateUrl)
                      ELSE SimilarLoop(targetPath, Tail(candidateUrls),
                                       maxSimilarity, mostSimilar)

findSimilarUrl(targetUrl, candidateUrls) ==
    IF candidateUrls = <<>> THEN NoUrl
    ELSE IF Throws(targetUrl) THEN NoUrl
    ELSE SimilarLoop(ParseUrl(targetUrl).pathname, candidateUrls,
                     <<0, 1>>, NoUrl)

\* ClassifyOld with the two tests in the other order
ClassifyRedirectFirst(normalizedOld, originalOld, normalizedNewUrls, redirectMap) ==
    IF ~redirectMap.isNull /\ originalOld \in redirectMap.keys
       /\ normalizeUrl(redirectMap.get[originalOld]) \in normalizedNewUrls
    THEN "redirected"
    ELSE IF normalizedOld \in normalizedNewUrls THEN "matched"
    ELSE "missing"

\* The bucket of one entry of normalizedOldUrls: the direct match is tried
\* first, the redirect mapping only when there is none.
ClassifyOld(normalizedOld, originalOld, normalizedNewUrls, redirectMap) ==
    IF normalizedOld \in normalizedNewUrls THEN "matched"
    ELSE IF ~redirectMap.isNull /\ originalOld \in redirectMap.keys
            /\ normalizeUrl(redirectMap.get[originalOld]) \in normalizedNewUrls
         THEN "redirected"
         ELSE "missing"

\* for (const [normalizedOld, originalOld] of normalizedOldUrls)
RECURSIVE OldLoop(_, _, _, _)
OldLoop(entries, newSeq, redirectMap, res) ==
    IF entries = <<>> THEN res
    ELSE LET normalizedOld == Head(entries).key
             originalOld   == Head(entries).value
             bucket == ClassifyOld(normalizedOld, originalOld,
                                   Range(newSeq), redirectMap)
         IN  OldLoop(Tail(entries), newSeq, redirectMap,
               CASE bucket = "matched" ->
                      [res EXCEPT !.matched = Append(@,
                          [oldUrl |-> originalOld, newUrl |-> originalOld,
                           matchType |-> "direct"])]
                 [] bucket = "redirected" ->
                      [res EXCEPT !.redirected = Append(@,
                          [oldUrl |-> originalOld,
                           newUrl |-> redirectMap.get[originalOld],
                           matchType |-> "mapped"])]
                 [] OTHER ->
                      [res EXCEPT !.missing = Append(@,
                          [oldUrl |-> originalOld,
                           suggestion |-> findSimilarUrl(normalizedOld, newSeq)])])

\* for (const newUrl of newUrls)
RECURSIVE NewLoop(_, _, _, _)
NewLoop(newUrls, oldKeys, redirectMap, res) ==
    IF newUrls = <<>> THEN res
    ELSE LET newUrl == Head(newUrls)
             normalized == normalizeUrl(newUrl)
             isRedirectTarget ==
                 ~redirectMap.isNull
                 /\ \E k \in redirectMap.keys :
                        normalizeUrl(redirectMap.get[k]) = normalized
         IN  NewLoop(Tail(newUrls), oldKeys, redirectMap,
                IF normalized \notin oldKeys /\ ~isRedirectTarget
                THEN [res EXCEPT !.new = Append(@,
                          [newUrl |-> newUrl, type |-> "new_content"])]
                ELSE res)

\* (x / total * 100).toFixed(2), kept as hundredths of a percent
ToFixed2(x, total) == (2 * x * 10000 + total) \div (2 * total)

compareUrls(oldUrls, newUrls, redirectMap) ==
    LET normalizedOldUrls ==
            MapFromPairs([i \in 1..Len(oldUrls) |->
                            [key |-> normalizeUrl(oldUrls[i]),
                             value |-> oldUrls[i]]], <<>>)
        normalizedNewUrls ==
            SetFromSeq([i \in 1..Len(newUrls) |-> normalizeUrl(newUrls[i])], <<>>)
        empty == [matched |-> <<>>, missing |-> <<>>, new |-> <<>>,
                  redirected |-> <<>>]
        r1 == OldLoop(normalizedOldUrls, normalizedNewUrls, redirectMap, empty)
        r2 == NewLoop(newUrls, {e.key : e \in Range(normalizedOldUrls)},
                      redirectMap, r1)
    IN  [matched |-> r2.matched, missing |-> r2.missing, new |-> r2.new,
         redirected |-> r2.redirected,
         summary |-> [totalOldUrls |-> Len(oldUrls),
                      totalNewUrls |-> Len(newUrls),
                      matchedCount |-> Len(r2.matched),
                      missingCount |-> Len(r2.missing),
                      newCount |-> Len(r2.new),
                      redirectedCount |-> Len(r2.redirected),
                      matchRate |-> IF Len(oldUrls) > 0
                                    THEN ToFixed2(Len(r2.matched) + Len(r2.redirected),
                                                  Len(oldUrls))
                                    ELSE 0]]

NoReport == [matched |-> <<>>, missing |-> <<>>, new |-> <<>>,
             redirected |-> <<>>,
             summary |-> [totalOldUrls |-> 0, totalNewUrls |-> 0,
                          matchedCount |-> 0, missingCount |-> 0,
                          newCount |-> 0, redirectedCount |-> 0,
                          matchRate |-> 0]]

InitUrls ==
    /\ cuOld \in DistinctSeqsUpTo(OldPool, MaxOld)
    /\ cuNew \in DistinctSeqsUpTo(NewPool, MaxNew)
    /\ cuMap \in RedirectMaps
    /\ cuPc = "call"
    /\ cuResult = NoReport

CompareUrlsCall ==
    /\ cuPc = "call"
    /\ cuResult' = compareUrls(cuOld, cuNew, cuMap)
    /\ cuPc' = "returned"
    /\ UNCHANGED <<cuOld, cuNew, cuMap>>
    /\ UNCHANGED nonUrlVars

NextUrls == CompareUrlsCall

\* no call of compareUrls
UrlsParked ==
    /\ cuOld = <<>>
    /\ cuNew = <<>>
    /\ cuMap = NullMap
    /\ cuPc = "off"
    /\ cuResult = NoReport

-----------------------------------------------------------------------------
(* Claims about compareUrls *)

NewNormSet == {normalizeUrl(cuNew[i]) : i \in 1..Len(cuNew)}

BucketOlds(bucket) == {bucket[i].oldUrl : i \in 1..Len(bucket)}

\* how many entries of the three old-side buckets carry oldUrl = o
EntriesOf(o) ==
    Cardinality({i \in 1..Len(cuResult.matched) : cuResult.matched[i].oldUrl = o})
    + Cardinality({i \in 1..Len(cuResult.redirected) : cuResult.redirected[i].oldUrl = o})
    + Cardinality({i \in 1..Len(cuResult.missing) : cuResult.missing[i].oldUrl = o})

\* o is a key of redirectMap whose normalized target is a normalized new URL
MappedToNew(o) ==
    /\ ~cuMap.isNull
    /\ o \in cuMap.keys
    /\ normalizeUrl(cuMap.get[o]) \in NewNormSet

\* o is the old URL kept for its normalized form: no later old URL has the
\* same normalization
KeptOld(o) ==
    \E i \in 1..Len(cuOld) :
        /\ cuOld[i] = o
        /\ \A j \in (i + 1)..Len(cuOld) :
               normalizeUrl(cuOld[j]) = normalizeUrl(o) => cuOld[j] = o

\* C1: the report of compareUrls has |matched| + |redirected| + |missing| =
\* |oldUrls| and every entry's oldUrl is an element of oldUrls, also when two
\* old URLs normalize to the same string.
C1_BucketsCoverOld ==
    cuPc = "returned" =>
        /\ Len(cuResult.matched) + Len(cuResult.redirected)
             + Len(cuResult.missing) = Len(cuOld)
        /\ BucketOlds(cuResult.matched) \cup BucketOlds(cuResult.redirected)
             \cup BucketOlds(cuResult.missing) \subseteq Range(cuOld)

\* C2 as stated: an old URL that is a redirectMap key with its normalized
\* target in the normalized new set is always in the redirected bucket,
\* whether or not its own normalization is in the normalized new set.
C2_RedirectAlwaysWins ==
    cuPc = "returned" =>
        \A o \in Range(cuOld) :
            MappedToNew(o) => o \in BucketOlds(cuResult.redirected)

\* C2 amended: such an old URL is in the redirected bucket exactly when its
\* own normalization is not in the normalized new set and it is the old URL
\* kept for its normalized form; with a direct match it is never redirected,
\* and the kept URL is then in the matched bucket.
C2_RedirectOnlyWithoutDirectMatch ==
    cuPc = "returned" =>
        \A o \in Range(cuOld) :
            MappedToNew(o) =>
                /\ o \in BucketOlds(cuResult.redirected)
                     <=> (normalizeUrl(o) \notin NewNormSet /\ KeptOld(o))
                /\ (normalizeUrl(o) \in NewNormSet /\ KeptOld(o))
                     => o \in BucketOlds(cuResult.matched)

\* a mapped old URL with a direct match has been reported as matched, and
\* another mapped old URL without one as redirected
C2_Witness ==
    /\ cuPc = "returned"
    /\ \E o \in Range(cuOld) :
          /\ MappedToNew(o)
          /\ normalizeUrl(o) \in NewNormSet
          /\ o \in BucketOlds(cuResult.matched)
          /\ o \notin BucketOlds(cuResult.redirected)

\* C3: every old URL lands in exactly one bucket by the ordered rule:
\* matched (newUrl the old URL itself, matchType direct) when its
\* normalization is in the normalized new set, else redirected (newUrl the
\* raw target, matchType mapped) when the map has it with a target in the
\* set, else missing.
C3_OrderedRule ==
    cuPc = "returned" =>
        \A o \in Range(cuOld) :
            /\ EntriesOf(o) = 1
            /\ IF normalizeUrl(o) \in NewNormSet
               THEN \E i \in 1..Len(cuResult.matched) :
                        cuResult.matched[i] =
                            [oldUrl |-> o, newUrl |-> o, matchType |-> "direct"]
               ELSE IF MappedToNew(o)
               THEN \E i \in 1..Len(cuResult.redirected) :
                        cuResult.redirected[i] =
                            [oldUrl |-> o, newUrl |-> cuMap.get[o],
                             matchType |-> "mapped"]
               ELSE \E i \in 1..Len(cuResult.missing) :
                        cuResult.missing[i].oldUrl = o

-----------------------------------------------------------------------------
(* checkMultipleUrls: a PQueue of one task per URL *)

ProbeUrlPool == {"u1", "u2"}

\* what checkUrlStatus can answer: 0 is a transport failure
StatusCodes == {0, 200, 404, 500}

\* options.delay: the default, and the value processProject passes
DelayChoices == {100, 200}

NullResult == [url |-> "null", statusCode |-> -1]

\* if (result.statusCode === 0 || result.statusCode >= 500)
RetryOnClientError(statusCode) == statusCode = 0 \/ statusCode >= 400

ShouldRetry(statusCode) == statusCode = 0 \/ statusCode >= 500

\* setTimeout(resolve, delay * attempts)
BackoffConstant(delay, attempts) == delay

BackoffMs(delay, attempts) == delay * attempts

\* PQueue starts a job only while fewer than concurrency are pending
StartAlways(pending, concurrency) == TRUE

CanStart(pending, concurrency) == pending < concurrency

\* the argument of onProgress for the task at place i of urls
ProgressByIndex(completedNow, urls, i) ==
    [completed |-> i, total |-> Len(urls), currentUrl |-> urls[i]]

ProgressInfo(completedNow, urls, i) ==
    [completed |-> completedNow, total |-> Len(urls), currentUrl |-> urls[i]]

Tasks == 1..Len(pbUrls)

\* jobs PQueue counts as pending: started and not yet settled
Pending(st) == Cardinality({i \in DOMAIN st :
                   st[i] \in {"probing", "backoff", "callback", "trailing"}})

\* results.push(result); completed++; onProgress?.(...) for task i, on top of
\* the task states st
Emit(st, i, result) ==
    /\ results' = Append(results, result)
    /\ tSlot' = [tSlot EXCEPT ![i] = Len(results) + 1]
    /\ completed' = completed + 1
    /\ IF pbHasProgress
       THEN /\ progressLog' = Append(progressLog,
                                     ProgressInfo(completed + 1, pbUrls, i))
            /\ cbActive' = cbActive + 1
            /\ tSt' = [st EXCEPT ![i] = "callback"]
       ELSE /\ tSt' = [st EXCEPT ![i] = "trailing"]
            /\ UNCHANGED <<progressLog, cbActive>>

\* PQueue runs the job of task i: the task body up to its first await
StartTask(st, i) ==
    IF 0 < pbRetry
    THEN /\ tSt' = [st EXCEPT ![i] = "probing"]
         /\ tInflight' = [tInflight EXCEPT ![i] = @ + 1]
         /\ UNCHANGED <<results, tSlot, completed, progressLog, cbActive>>
    ELSE /\ Emit(st, i, tResult[i])
         /\ UNCHANGED tInflight

InitProbe ==
    /\ pbUrls \in SeqsUpTo(ProbeUrlPool, MaxUrls)
    /\ pbConcurrency \in 1..MaxConcurrency
    /\ pbRetry \in 0..MaxRetry
    /\ pbDelay \in DelayChoices
    /\ pbHasProgress \in BOOLEAN
    /\ pbPc = "idle"
    /\ pbNext = 1
    /\ tSt = [i \in 1..Len(pbUrls) |-> "new"]
    /\ tAttempts = [i \in 1..Len(pbUrls) |-> 0]
    /\ tResult = [i \in 1..Len(pbUrls) |-> NullResult]
    /\ results = <<>>
    /\ completed = 0
    /\ tHist = [i \in 1..Len(pbUrls) |-> <<>>]
    /\ tInflight = [i \in 1..Len(pbUrls) |-> 0]
    /\ tSleeps = [i \in 1..Len(pbUrls) |-> <<>>]
    /\ tSlot = [i \in 1..Len(pbUrls) |-> 0]
    /\ progressLog = <<>>
    /\ cbActive = 0

pbParams == <<pbUrls, pbConcurrency, pbRetry, pbDelay, pbHasProgress>>

\* checkMultipleUrls is called: queue, results and completed are set up
BatchCall ==
    /\ pbPc = "idle"
    /\ pbPc' = "adding"
    /\ UNCHANGED <<pbParams, pbNext, tSt, tAttempts, tResult, results,
                   completed, tHist, tInflight, tSleeps, tSlot, progressLog,
                   cbActive>>
    /\ UNCHANGED nonProbeVars

\* one round of the for loop: queue.add(task of urls[pbNext])
AddTask ==
    /\ pbPc = "adding"
    /\ cbActive = 0
    /\ pbNext <= Len(pbUrls)
    /\ pbNext' = pbNext + 1
    /\ IF CanStart(Pending(tSt), pbConcurrency)
       THEN StartTask(tSt, pbNext)
       ELSE /\ tSt' = [tSt EXCEPT ![pbNext] = "queued"]
            /\ UNCHANGED <<results, tSlot, completed, progressLog, cbActive,
                           tInflight>>
    /\ UNCHANGED <<pbParams, pbPc, tAttempts, tResult, tHist, tSleeps>>
    /\ UNCHANGED nonProbeVars

\* the for loop is over: await queue.onIdle()
AwaitIdle ==
    /\ pbPc = "adding"
    /\ cbActive = 0
    /\ pbNext > Len(pbUrls)
    /\ pbPc' = "awaiting"
    /\ UNCHANGED <<pbParams, pbNext, tSt, tAttempts, tResult, results,
                   completed, tHist, tInflight, tSleeps, tSlot, progressLog,
                   cbActive>>
    /\ UNCHANGED nonProbeVars

\* checkUrlStatus of task i answers statusCode: the rest of the while round
ProbeReturn(i, statusCode) ==
    /\ pbPc = "awaiting"
    /\ cbActive = 0
    /\ tSt[i] = "probing"
    /\ LET result == [url |-> pbUrls[i], statusCode |-> statusCode]
           attempts == IF ShouldRetry(statusCode)
                       THEN tAttempts[i] + 1 ELSE tAttempts[i]
       IN  /\ tResult' = [tResult EXCEPT ![i] = result]
           /\ tAttempts' = [tAttempts EXCEPT ![i] = attempts]
           /\ tHist' = [tHist EXCEPT ![i] = Append(@, statusCode)]
           /\ tInflight' = [tInflight EXCEPT ![i] = @ - 1]
           /\ IF ShouldRetry(statusCode) /\ attempts < pbRetry
              THEN /\ tSt' = [tSt EXCEPT ![i] = "backoff"]
                   /\ tSleeps' = [tSleeps EXCEPT ![i] =
                                    Append(@, BackoffMs(pbDelay, attempts))]
                   /\ UNCHANGED <<results, tSlot, completed, progressLog,
                                  cbActive>>
              ELSE /\ Emit(tSt, i, result)
                   /\ UNCHANGED tSleeps
    /\ UNCHANGED <<pbParams, pbPc, pbNext>>
    /\ UNCHANGED nonProbeVars

\* the backoff timer of task i fires: continue, the next checkUrlStatus
BackoffElapsed(i) ==
    /\ pbPc = "awaiting"
    /\ cbActive = 0
    /\ tSt[i] = "backoff"
    /\ tSt' = [tSt EXCEPT ![i] = "probing"]
    /\ tInflight' = [tInflight EXCEPT ![i] = @ + 1]
    /\ UNCHANGED <<pbParams, pbPc, pbNext, tAttempts, tResult, results,
                   completed, tHist, tSleeps, tSlot, progressLog, cbActive>>
    /\ UNCHANGED nonProbeVars

\* onProgress returns; the task goes on to its trailing delay
CallbackReturn(i) ==
    /\ tSt[i] = "callback"
    /\ cbActive' = cbActive - 1
    /\ tSt' = [tSt EXCEPT ![i] = "trailing"]
    /\ UNCHANGED <<pbParams, pbPc, pbNext, tAttempts, tResult, results,
                   completed, tHist, tInflight, tSleeps, tSlot, progressLog>>
    /\ UNCHANGED nonProbeVars

\* the trailing delay of task i is over: its job settles and PQueue runs
\* the next queued job, if any
TrailingElapsed(i) ==
    /\ pbPc = "awaiting"
    /\ cbActive = 0
    /\ tSt[i] = "trailing"
    /\ LET st1 == [tSt EXCEPT ![i] = "done"]
           queued == {j \in Tasks : tSt[j] = "queued"}
       IN  IF queued # {} /\ CanStart(Pending(st1), pbConcurrency)
           THEN StartTask(st1, CHOOSE j \in queued : \A k \in queued : j <= k)
           ELSE /\ tSt' = st1
                /\ UNCHANGED <<results, tSlot, completed, progressLog,
                               cbActive, tInflight>>
    /\ UNCHANGED <<pbParams, pbPc, pbNext, tAttempts, tResult, tHist, tSleeps>>
    /\ UNCHANGED nonProbeVars

\* queue.onIdle() resolves: nothing queued, nothing pending; return results
BatchResolve ==
    /\ pbPc = "awaiting"
    /\ cbActive = 0
    /\ \A i \in Tasks : tSt[i] = "done"
    /\ pbPc' = "resolved"
    /\ UNCHANGED <<pbParams, pbNext, tSt, tAttempts, tResult, results,
                   completed, tHist, tInflight, tSleeps, tSlot, progressLog,
                   cbActive>>
    /\ UNCHANGED nonProbeVars

NextProbe ==
    \/ BatchCall
    \/ AddTask
    \/ AwaitIdle
    \/ \E i \in Tasks, statusCode \in StatusCodes : ProbeReturn(i, statusCode)
    \/ \E i \in Tasks : BackoffElapsed(i)
    \/ \E i \in Tasks : CallbackReturn(i)
    \/ \E i \in Tasks : TrailingElapsed(i)
    \/ BatchResolve

\* no batch
ProbeParked ==
    /\ pbUrls = <<>>
    /\ pbConcurrency = 1
    /\ pbRetry = 0
    /\ pbDelay = 100
    /\ pbHasProgress = FALSE
    /\ pbPc = "off"
    /\ pbNext = 1
    /\ tSt = <<>>
    /\ tAttempts = <<>>
    /\ tResult = <<>>
    /\ results = <<>>
    /\ completed = 0
    /\ tHist = <<>>
    /\ tInflight = <<>>
    /\ tSleeps = <<>>
    /\ tSlot = <<>>
    /\ progressLog = <<>>
    /\ cbActive = 0

-----------------------------------------------------------------------------
(* categorizeResults, findBrokenLinks, selectImportantUrls and the serial   *)
(* batches of the later stages                                              *)

\* the branch of categorizeResults a status code takes
BucketOf(statusCode) ==
    IF statusCode = 200 THEN "ok"
    ELSE IF statusCode >= 300 /\ statusCode < 400 THEN "redirects"
    ELSE IF statusCode >= 400 /\ statusCode < 500 THEN "clientErrors"
    ELSE IF statusCode >= 500 THEN "serverErrors"
    ELSE "networkErrors"

categorizeResults(probeResults) ==
    LET Of(b) == LET InB(x) == BucketOf(x.statusCode) = b
                 IN  SelectSeq(probeResults, InB)
    IN  [ok            |-> Of("ok"),
         redirects     |-> Of("redirects"),
         clientErrors  |-> Of("clientErrors"),
         serverErrors  |-> Of("serverErrors"),
         networkErrors |-> Of("networkErrors"),
         summary |-> [total             |-> Len(probeResults),
                      okCount           |-> Len(Of("ok")),
                      redirectCount     |-> Len(Of("redirects")),
                      clientErrorCount  |-> Len(Of("clientErrors")),
                      serverErrorCount  |-> Len(Of("serverErrors")),
                      networkErrorCount |-> Len(Of("networkErrors"))]]

\* filter(4xx).map(result => ({ url, statusCode, statusText, error }))
findBrokenLinks(probeResults) ==
    LET Broken(x) == x.statusCode >= 400 /\ x.statusCode < 500
        kept == SelectSeq(probeResults, Broken)
    IN  [i \in 1..Len(kept) |->
            [url |-> kept[i].url, statusCode |-> kept[i].statusCode]]

\* s.endsWith('/') of the text of s
EndsWithSlash(s) ==
    /\ s.search = ""
    /\ s.pathname # <<>>
    /\ s.pathname[Len(s.pathname)] = "/"

\* seq.slice(from, to) of JavaScript, 0 <= from; a negative to counts from
\* the end
Slice(seq, from, to) ==
    LET stop == IF to < 0 THEN Len(seq) + to
                ELSE IF to > Len(seq) THEN Len(seq) ELSE to
    IN  IF stop <= from THEN <<>> ELSE SubSeq(seq, from + 1, stop)

\* (a.clicks || 0) + (a.impressions || 0)
Traffic(gscEntry) == gscEntry.clicks + gscEntry.impressions

\* [...gscData].sort((a, b) => bTraffic - aTraffic): stable, descending
RECURSIVE InsertByTraffic(_, _)
InsertByTraffic(sorted, gscEntry) ==
    IF sorted = <<>> THEN <<gscEntry>>
    ELSE IF Traffic(Head(sorted)) >= Traffic(gscEntry)
         THEN <<Head(sorted)>> \o InsertByTraffic(Tail(sorted), gscEntry)
         ELSE <<gscEntry>> \o sorted

RECURSIVE SortByTraffic(_, _)
SortByTraffic(gscData, sorted) ==
    IF gscData = <<>> THEN sorted
    ELSE SortByTraffic(Tail(gscData), InsertByTraffic(sorted, Head(gscData)))

\* for (const gscEntry of sortedGSC)
RECURSIVE GscLoop(_, _, _, _, _)
GscLoop(sortedGSC, all, maxUrls, urlsToTest, urlPaths) ==
    IF sortedGSC = <<>> \/ Len(urlsToTest) >= maxUrls THEN urlsToTest
    ELSE LET gscEntry == Head(sortedGSC)
             hits == {i \in 1..Len(all) : all[i].oldUrl = gscEntry.url}
         IN  IF hits = {}
             THEN GscLoop(Tail(sortedGSC), all, maxUrls, urlsToTest, urlPaths)
             ELSE LET matchedUrl == all[CHOOSE i \in hits : \A j \in hits : i <= j]
                  IN  IF matchedUrl.oldUrl \in urlPaths
                      THEN GscLoop(Tail(sortedGSC), all, maxUrls, urlsToTest,
                                   urlPaths)
                      ELSE GscLoop(Tail(sortedGSC), all, maxUrls,
                                   Append(urlsToTest, matchedUrl),
                                   urlPaths \cup {matchedUrl.oldUrl})

selectEveryUrl(comparison, gscData, maxUrls) ==
    comparison.matched \o comparison.redirected

\* selectImportantUrls with its maxUrls as a parameter
selectImportantUrls(comparison, gscData, maxUrls) ==
    LET all == comparison.matched \o comparison.redirected
        IsHomepage(u) == EndsWithSlash(u.oldUrl) \/ EndsWithSlash(u.newUrl)
        homepageUrls == SelectSeq(all, IsHomepage)
        t1 == Slice(homepageUrls, 0, 1)
        t2 == IF gscData # <<>>
              THEN GscLoop(SortByTraffic(gscData, <<>>), all, maxUrls, t1,
                           {t1[i].oldUrl : i \in 1..Len(t1)})
              ELSE t1
        urlPaths == {t2[i].oldUrl : i \in 1..Len(t2)}
        NotYet(u) == u.oldUrl \notin urlPaths
        remainingUrls == SelectSeq(all, NotYet)
        t3 == t2 \o Slice(remainingUrls, 0, maxUrls - Len(t2))
    IN  Slice(t3, 0, maxUrls)

\* const maxUrls = 10
maxUrls == 10

\* urlsToTest.slice(0, 5)
MobileSlice == 5

\* [...matched, ...redirected].slice(0, 20)
SeoSlice == 20

\* oldUrls.slice(0, 100)
StatusSlice == 100

\* one entry of a stored stage result: the list it is in, its URL, and
\* whether it reports a success
Entry3(list, url, ok) == [list |-> list, url |-> url, ok |-> ok]

EntriesIn(list, items, ok) ==
    [i \in 1..Len(items) |-> Entry3(list, items[i].url, ok)]

\* checkMultipleUrls as a stage sees it: one result per URL, statusCode 0
\* for a URL that cannot be reached
ProbeAll(urls, dn) ==
    [i \in 1..Len(urls) |->
        [url |-> urls[i], statusCode |-> IF urls[i] \in dn THEN 0 ELSE 200]]

\* project.results.oldSiteStatus / newSiteStatus = categorizeResults(...)
StatusEntries(urls, dn) ==
    LET c == categorizeResults(ProbeAll(Slice(urls, 0, StatusSlice), dn))
    IN  EntriesIn("ok", c.ok, TRUE) \o EntriesIn("redirects", c.redirects, TRUE)
        \o EntriesIn("clientErrors", c.clientErrors, FALSE)
        \o EntriesIn("serverErrors", c.serverErrors, FALSE)
        \o EntriesIn("networkErrors", c.networkErrors, FALSE)

\* step 7: for (const pair of urlsToValidate) try { crawl old, push; crawl
\* new, push; compare, push } catch { log }
RECURSIVE SeoLoop(_, _, _)
SeoLoop(urlsToValidate, dn, acc) ==
    IF urlsToValidate = <<>> THEN acc
    ELSE LET pair == Head(urlsToValidate)
         IN  SeoLoop(Tail(urlsToValidate), dn,
                IF pair.oldUrl \in dn THEN acc
                ELSE IF pair.newUrl \in dn
                THEN Append(acc, Entry3("oldPagesSEO", pair.oldUrl, TRUE))
                ELSE acc \o << Entry3("oldPagesSEO", pair.oldUrl, TRUE),
                               Entry3("newPagesSEO", pair.newUrl, TRUE),
                               Entry3("comparisons", pair.oldUrl, TRUE) >>)

\* runBatchAudits: {url, success: true, ...} or {url, success: false, error}
runBatchAudits(urls, dn) ==
    [i \in 1..Len(urls) |-> [url |-> urls[i], success |-> urls[i] \notin dn]]

\* testMultipleUrls: the result of testMobileResponsiveness, which carries
\* error when the test failed
testMultipleUrls(urls, dn) ==
    [i \in 1..Len(urls) |-> [url |-> urls[i], error |-> urls[i] \in dn]]

-----------------------------------------------------------------------------
(* startProcessing and processProject on one Project document *)

Requests == 1..MaxRequests

AllFiles == {"oldSitemap", "newSitemap", "gscExport", "redirectMapping"}

\* The stages of processProject in program order: the tag and percentage
\* saved before the stage's work, the uploaded files whose parsers the work
\* awaits when they are present (a parser can reject), the fields of the
\* Project the work assigns when it ends (gscData only with a GSC export),
\* and whether these are saved before the next stage is announced.
Stages == <<
    [stage |-> "parsing_site maps",   progress |-> 10, parses |-> {"oldSitemap", "newSitemap"},
     assigns |-> {},                        stores |-> FALSE],
    [stage |-> "parsing_gsc",         progress |-> 25, parses |-> {"gscExport"},
     assigns |-> {"gscData"},               stores |-> FALSE],
    [stage |-> "parsing_redirects",   progress |-> 35, parses |-> {"redirectMapping"},
     assigns |-> {"urls"},                  stores |-> TRUE],
    [stage |-> "comparing_urls",      progress |-> 50, parses |-> {},
     assigns |-> {"urlComparison"},         stores |-> TRUE],
    [stage |-> "checking_old_urls",   progress |-> 60, parses |-> {},
     assigns |-> {"oldSiteStatus"},         stores |-> TRUE],
    [stage |-> "checking_new_urls",   progress |-> 75, parses |-> {},
     assigns |-> {"newSiteStatus"},         stores |-> TRUE],
    [stage |-> "validating_seo",      progress |-> 85, parses |-> {},
     assigns |-> {"seoValidation"},         stores |-> TRUE],
    [stage |-> "finalizing",          progress |-> 90, parses |-> {},
     assigns |-> {"brokenLinks"},           stores |-> FALSE],
    [stage |-> "testing_performance", progress |-> 92, parses |-> {},
     assigns |-> {"performanceValidation"}, stores |-> TRUE],
    [stage |-> "testing_mobile",      progress |-> 96, parses |-> {},
     assigns |-> {"mobileResponsiveness"},  stores |-> TRUE] >>

\* project.urls and the fields of project.results the run writes
OutputNames == UNION {Stages[k].assigns : k \in 1..Len(Stages)}

\* a field that was never assigned
Unset == [set |-> FALSE, entries |-> <<>>]

NoResults == [n \in OutputNames |-> Unset]

\* What the uploaded files hold: two old URLs, of which UA is on the new
\* site under the same address and UB under UN, the redirect mapping
\* UB -> UN, and one GSC row for UB.
UN == Str("http:", <<"new", "site">>, <<"/", "b">>, "")

SiteUrls == {UA, UB, UN}

SitemapOld == <<UA, UB>>

SitemapNew == <<UA, UN>>

GscRows == <<[url |-> UB, clicks |-> 1, impressions |-> 2]>>

RedirectRows == MakeMap([u \in {UB} |-> UN])

\* steps 1 and 2: oldUrls from the old sitemap, merged with the GSC URLs
RunOldUrls(fs) ==
    SetFromSeq((IF "oldSitemap" \in fs THEN SitemapOld ELSE <<>>)
               \o (IF "gscExport" \in fs
                   THEN [i \in 1..Len(GscRows) |-> GscRows[i].url] ELSE <<>>),
               <<>>)

RunNewUrls(fs) == IF "newSitemap" \in fs THEN SitemapNew ELSE <<>>

RunGscData(fs) == IF "gscExport" \in fs THEN GscRows ELSE <<>>

\* step 4
RunComparison(fs) ==
    compareUrls(RunOldUrls(fs), RunNewUrls(fs),
                IF "redirectMapping" \in fs THEN RedirectRows ELSE NullMap)

\* step 9: selectImportantUrls(comparison, project.results.gscData)
RunUrlsToTest(fs) ==
    selectImportantUrls(RunComparison(fs), RunGscData(fs), maxUrls)

UrlsOf(items) == [i \in 1..Len(items) |-> [url |-> items[i]]]

OldSide(pairs) == [i \in 1..Len(pairs) |-> pairs[i].oldUrl]

NewSide(pairs) == [i \in 1..Len(pairs) |-> pairs[i].newUrl]

OldUrlOf(items) == [i \in 1..Len(items) |-> [url |-> items[i].oldUrl]]

NewUrlOf(items) == [i \in 1..Len(items) |-> [url |-> items[i].newUrl]]

AuditEntries(list, audits) ==
    [i \in 1..Len(audits) |-> Entry3(list, audits[i].url, audits[i].success)]

MobileEntries(list, tests) ==
    [i \in 1..Len(tests) |-> Entry3(list, tests[i].url, ~tests[i].error)]

\* the value a stage assigns to the field n of the Project
StageValue(n, fs, dn) ==
    LET comparison == RunComparison(fs)
        pairs == comparison.matched \o comparison.redirected
    IN  CASE n = "gscData" -> EntriesIn("gscData", RunGscData(fs), TRUE)
          [] n = "urls" ->
                EntriesIn("old", UrlsOf(RunOldUrls(fs)), TRUE)
                \o EntriesIn("new", UrlsOf(RunNewUrls(fs)), TRUE)
          [] n = "urlComparison" ->
                EntriesIn("matched", OldUrlOf(comparison.matched), TRUE)
                \o EntriesIn("redirected", OldUrlOf(comparison.redirected), TRUE)
                \o EntriesIn("missing", OldUrlOf(comparison.missing), TRUE)
                \o EntriesIn("new", NewUrlOf(comparison.new), TRUE)
          [] n = "oldSiteStatus" -> StatusEntries(RunOldUrls(fs), dn)
          [] n = "newSiteStatus" -> StatusEntries(RunNewUrls(fs), dn)
          [] n = "seoValidation" -> SeoLoop(Slice(pairs, 0, SeoSlice), dn, <<>>)
          [] n = "brokenLinks" ->
                EntriesIn("oldSite",
                    findBrokenLinks(ProbeAll(Slice(RunOldUrls(fs), 0, StatusSlice), dn)),
                    FALSE)
                \o EntriesIn("newSite",
                    findBrokenLinks(ProbeAll(Slice(RunNewUrls(fs), 0, StatusSlice), dn)),
                    FALSE)
          [] n = "performanceValidation" ->
                AuditEntries("oldSitePerformance",
                             runBatchAudits(OldSide(RunUrlsToTest(fs)), dn))
                \o AuditEntries("newSitePerformance",
                                runBatchAudits(NewSide(RunUrlsToTest(fs)), dn))
          [] n = "mobileResponsiveness" ->
                MobileEntries("oldSite",
                    testMultipleUrls(OldSide(Slice(RunUrlsToTest(fs), 0, MobileSlice)), dn))
                \o MobileEntries("newSite",
                    testMultipleUrls(NewSide(Slice(RunUrlsToTest(fs), 0, MobileSlice)), dn))

\* the fields the work of stage k assigns
Assigned(k, fs) ==
    IF Stages[k].stage = "parsing_gsc" /\ "gscExport" \notin fs THEN {}
    ELSE Stages[k].assigns

\* project.results.x = ... / project.urls = ... at the end of stage k's work
Assign(doc, k, fs, dn) ==
    [doc EXCEPT !.results = [n \in OutputNames |->
                                IF n \in Assigned(k, fs)
                                THEN [set |-> TRUE, entries |-> StageValue(n, fs, dn)]
                                ELSE @[n]],
                !.dirty = @ \cup Assigned(k, fs)]

\* a document as created by the upload: status 'pending', no processingStatus
NewProject == [status |-> "pending", stage |-> "none", progress |-> 0, error |-> "",
               results |-> NoResults]

NewDoc == [status |-> "pending", stage |-> "none", progress |-> 0, error |-> "",
           results |-> NoResults, dirty |-> {}]

\* MigrationProject.findById: the stored document, nothing modified
FindById(stored) ==
    [status |-> stored.status, stage |-> stored.stage,
     progress |-> stored.progress, error |-> stored.error,
     results |-> stored.results, dirty |-> {}]

\* project.status = v: the path is marked modified when the value changes
SetStatus(doc, v) ==
    [doc EXCEPT !.status = v,
                !.dirty = IF doc.status = v THEN @ ELSE @ \cup {"status"}]

\* project.processingStatus = {stage, progress, startedAt}: no error field.
\* (The later steps set .stage and .progress of the object step 1 assigned,
\* whose error is unset as well.)
SetProcessingStatus(doc, stage, progress) ==
    [doc EXCEPT !.stage = stage, !.progress = progress, !.error = "",
                !.dirty = @ \cup {"processingStatus"}]

\* project.processingStatus = {stage: 'failed', progress, startedAt, error}
SetFailure(doc, progress, message) ==
    [doc EXCEPT !.stage = "failed", !.progress = progress, !.error = message,
                !.dirty = @ \cup {"processingStatus"}]

\* project.save() succeeding: the modified paths are written to the store
Stored(stored, doc) ==
    [status   |-> IF "status" \in doc.dirty THEN doc.status ELSE stored.status,
     stage    |-> IF "processingStatus" \in doc.dirty THEN doc.stage ELSE stored.stage,
     progress |-> IF "processingStatus" \in doc.dirty THEN doc.progress
                  ELSE stored.progress,
     error    |-> IF "processingStatus" \in doc.dirty THEN doc.error
                  ELSE stored.error,
     results  |-> [n \in OutputNames |-> IF n \in doc.dirty THEN doc.results[n]
                                         ELSE stored.results[n]]]

LastTwo(q) == IF Len(q) > 2 THEN SubSeq(q, Len(q) - 1, Len(q)) ELSE q

Cleaned(doc) == [doc EXCEPT !.dirty = {}]

\* progress: project.processingStatus?.progress || 0
FailureProgress(doc) == doc.progress

\* the pc after the work of stage k, or after the save of its output
AfterStageEarly(k) == "complete"

AfterStage(k) == IF k < Len(Stages) THEN "announce" ELSE "complete"

\* the error a rejected await throws: where the run was, and error.message
SaveError == "save rejected"

ParseError == "parse failed"

NoError == [from |-> "", message |-> ""]

Thrown(from, message) == [from |-> from, message |-> message]

\* await project.save() by request / run r with the document doc: on success
\* the store is written and r goes to okPc; on rejection r goes to failPc
\* and the document keeps its modified paths
Save(r, doc, ok, okPc, failPc) ==
    IF ok
    THEN /\ db' = Stored(db, doc)
         /\ prDoc' = [prDoc EXCEPT ![r] = Cleaned(doc)]
         /\ prSaves' = [prSaves EXCEPT ![r] = LastTwo(Append(@, Stored(db, doc)))]
         /\ prPc' = [prPc EXCEPT ![r] = okPc]
         /\ UNCHANGED prErr
    ELSE /\ prDoc' = [prDoc EXCEPT ![r] = doc]
         /\ prPc' = [prPc EXCEPT ![r] = failPc]
         /\ prErr' = [prErr EXCEPT ![r] = Thrown(prPc[r], SaveError)]
         /\ UNCHANGED <<db, prSaves>>

\* startProcessing up to its save: findById, status and processingStatus set
StartProcessing(r) ==
    /\ prPc[r] = "idle"
    /\ prDoc' = [prDoc EXCEPT ![r] =
                   SetProcessingStatus(SetStatus(FindById(db), "processing"),
                                       "starting", 0)]
    /\ prPc' = [prPc EXCEPT ![r] = "starting"]
    /\ UNCHANGED <<db, prK, prSaves, prErr>>
    /\ UNCHANGED <<files, down>>
    /\ UNCHANGED nonPipeVars

\* startProcessing's save returns: processProject(id) is called and awaits
\* findById, or the handler answers 500 and nothing runs
StartSave(r, ok) ==
    /\ prPc[r] = "starting"
    /\ Save(r, prDoc[r], ok, "load", "refused")
    /\ UNCHANGED prK
    /\ UNCHANGED <<files, down>>
    /\ UNCHANGED nonPipeVars

\* processProject: findById returns the stored document
RunLoad(r) ==
    /\ prPc[r] = "load"
    /\ prDoc' = [prDoc EXCEPT ![r] = FindById(db)]
    /\ prK' = [prK EXCEPT ![r] = 1]
    /\ prPc' = [prPc EXCEPT ![r] = "announce"]
    /\ UNCHANGED <<db, prSaves, prErr>>
    /\ UNCHANGED <<files, down>>
    /\ UNCHANGED nonPipeVars

\* the stage tag and percentage of stage prK[r] are set and saved
Announce(r, ok) ==
    /\ prPc[r] = "announce"
    /\ Save(r, SetProcessingStatus(prDoc[r], Stages[prK[r]].stage,
                                   Stages[prK[r]].progress),
            ok, "work", "catch")
    /\ UNCHANGED prK
    /\ UNCHANGED <<files, down>>
    /\ UNCHANGED nonPipeVars

\* the work of stage prK[r] ends: normally, its output assigned to the
\* document, or by throwing
Work(r, ok) ==
    /\ prPc[r] = "work"
    /\ ok \/ Stages[prK[r]].parses \cap files # {}
    /\ IF ~ok THEN /\ prPc' = [prPc EXCEPT ![r] = "catch"]
                   /\ prErr' = [prErr EXCEPT ![r] = Thrown("work", ParseError)]
                   /\ UNCHANGED prK
                   /\ UNCHANGED prDoc
       ELSE /\ prDoc' = [prDoc EXCEPT ![r] = Assign(@, prK[r], files, down)]
            /\ UNCHANGED prErr
            /\ IF Stages[prK[r]].stores
               THEN /\ prPc' = [prPc EXCEPT ![r] = "store"]
                    /\ UNCHANGED prK
               ELSE /\ prPc' = [prPc EXCEPT ![r] = AfterStage(prK[r])]
                    /\ prK' = [prK EXCEPT ![r] = Min2(@ + 1, Len(Stages))]
    /\ UNCHANGED <<db, prSaves>>
    /\ UNCHANGED <<files, down>>
    /\ UNCHANGED nonPipeVars

\* the output of stage prK[r] is saved
Store(r, ok) ==
    /\ prPc[r] = "store"
    /\ Save(r, prDoc[r], ok, AfterStage(prK[r]), "catch")
    /\ prK' = [prK EXCEPT ![r] = IF ok THEN Min2(@ + 1, Len(Stages)) ELSE @]
    /\ UNCHANGED <<files, down>>
    /\ UNCHANGED nonPipeVars

\* Mark as completed: status 'completed', stage 'completed', progress 100
Complete(r, ok) ==
    /\ prPc[r] = "complete"
    /\ Save(r, SetProcessingStatus(SetStatus(prDoc[r], "completed"),
                                   "completed", 100),
            ok, "done", "catch")
    /\ UNCHANGED prK
    /\ UNCHANGED <<files, down>>
    /\ UNCHANGED nonPipeVars

\* the catch block: status and stage 'failed', the percentage kept,
\* error.message recorded, saved;
\* when this save rejects too, processProject rejects
Catch(r, ok) ==
    /\ prPc[r] = "catch"
    /\ Save(r, SetFailure(SetStatus(prDoc[r], "failed"),
                          FailureProgress(prDoc[r]), prErr[r].message),
            ok, "failed", "rejected")
    /\ UNCHANGED prK
    /\ UNCHANGED <<files, down>>
    /\ UNCHANGED nonPipeVars

NextPipeline ==
    \/ \E r \in Requests : StartProcessing(r)
    \/ \E r \in Requests, ok \in BOOLEAN : StartSave(r, ok)
    \/ \E r \in Requests : RunLoad(r)
    \/ \E r \in Requests, ok \in BOOLEAN : Announce(r, ok)
    \/ \E r \in Requests, ok \in BOOLEAN : Work(r, ok)
    \/ \E r \in Requests, ok \in BOOLEAN : Store(r, ok)
    \/ \E r \in Requests, ok \in BOOLEAN : Complete(r, ok)
    \/ \E r \in Requests, ok \in BOOLEAN : Catch(r, ok)

\* no request
PipeParked ==
    /\ db = NewProject
    /\ prPc = [r \in Requests |-> "off"]
    /\ prK = [r \in Requests |-> 1]
    /\ prDoc = [r \in Requests |-> NewDoc]
    /\ prSaves = [r \in Requests |-> <<>>]
    /\ prErr = [r \in Requests |-> NoError]
    /\ files = {}
    /\ down = {}

-----------------------------------------------------------------------------
(* runLighthouseAudit, testMobileResponsiveness and crawlWithPuppeteer: the  *)
(* three functions that launch a headless browser, and the serial batches   *)
(* (runBatchAudits, testMultipleUrls) that call the first two.  A call of   *)
(* chrome.kill() / browser.close() is taken to end the browser process.     *)

BrowserFunctions ==
    {"runLighthouseAudit", "testMobileResponsiveness", "crawlWithPuppeteer"}

\* Object.entries(VIEWPORT_SIZES): mobile, tablet, desktop
ViewportCount == 3

Devices == <<"mobile", "tablet", "desktop">>

\* what testViewport can return for a device: { device, ..., issues } with
\* no issue or one, or { device, error } when one of its awaits threw
ViewportResults(deviceType) ==
    {[device |-> deviceType, issues |-> <<>>],
     [device |-> deviceType, issues |-> <<"Horizontal scrollbar detected">>],
     [device |-> deviceType, error |-> "Navigation timeout"]}

\* !r.error
NoViewportError(r) == "error" \notin DOMAIN r

RECURSIVE IssuesUntilError(_)
RECURSIVE AllIssues(_)
IssuesUntilError(viewportResults) ==
    IF viewportResults = <<>> \/ ~NoViewportError(Head(viewportResults))
    THEN <<>>
    ELSE Head(viewportResults).issues \o IssuesUntilError(Tail(viewportResults))

\* Object.values(viewportResults).filter(r => !r.error).flatMap(r => r.issues)
AllIssues(viewportResults) ==
    IF viewportResults = <<>> THEN <<>>
    ELSE IF NoViewportError(Head(viewportResults))
    THEN Head(viewportResults).issues \o AllIssues(Tail(viewportResults))
    ELSE AllIssues(Tail(viewportResults))

\* what testMobileResponsiveness returns after its viewport loop
MobileReturn(url, viewportResults) ==
    [url |-> url,
     viewports |-> viewportResults,
     overallIssues |-> AllIssues(viewportResults),
     responsive |-> Len(AllIssues(viewportResults)) = 0]

\* the urls a batch is called with; crawlWithPuppeteer takes a single url
BatchesOf(fn) ==
    IF fn = "crawlWithPuppeteer"
    THEN {<<u>> : u \in {UA, UB}}
    ELSE UNION {[1..n -> {UA, UB}] : n \in 0..MaxBatch}

FinallyOnReturn(open, browser, outcome) ==
    IF browser # 0 /\ outcome = "return" THEN open \ {browser} ELSE open

\* the finally block: kill / close the browser when the local was assigned
Finally(open, browser, outcome) ==
    IF browser # 0 THEN open \ {browser} ELSE open

InitBrowser ==
    /\ bwFn \in BrowserFunctions
    /\ bwUrls \in BatchesOf(bwFn)
    /\ bwI = 1
    /\ bwPc = IF bwUrls = <<>> THEN "done" ELSE "loop"
    /\ bwBrowser = 0
    /\ bwOpen = {}
    /\ bwLaunched = 0
    /\ bwViewports = <<>>
    /\ bwOutcome = "none"
    /\ bwResults = <<>>

\* the batch loop calls the function for urls[i]; `let browser` is undefined
BwCall ==
    /\ bwPc = "loop"
    /\ bwBrowser' = 0
    /\ bwViewports' = <<>>
    /\ bwOutcome' = "none"
    /\ bwPc' = IF bwFn = "testMobileResponsiveness" THEN "mkdir" ELSE "launch"
    /\ UNCHANGED <<bwFn, bwUrls, bwI, bwOpen, bwLaunched, bwResults>>
    /\ UNCHANGED nonBrowserVars

\* testMobileResponsiveness: await ensureScreenshotDir(...) inside the try
BwEnsureScreenshotDir ==
    /\ bwPc = "mkdir"
    /\ \E ok \in BOOLEAN : bwPc' = IF ok THEN "launch" ELSE "catch"
    /\ UNCHANGED <<bwFn, bwUrls, bwI, bwBrowser, bwOpen, bwLaunched,
                   bwViewports, bwOutcome, bwResults>>
    /\ UNCHANGED nonBrowserVars

\* browser = await puppeteer.launch(...) / chrome = await chromeLauncher.launch(...)
BwLaunch ==
    /\ bwPc = "launch"
    /\ \E ok \in BOOLEAN :
          IF ok
          THEN /\ bwLaunched' = bwLaunched + 1
               /\ bwBrowser' = bwLaunched + 1
               /\ bwOpen' = bwOpen \cup {bwLaunched + 1}
               /\ bwPc' = "page"
          ELSE /\ bwPc' = "catch"
               /\ UNCHANGED <<bwLaunched, bwBrowser, bwOpen>>
    /\ UNCHANGED <<bwFn, bwUrls, bwI, bwViewports, bwOutcome, bwResults>>
    /\ UNCHANGED nonBrowserVars

\* the awaits between the launch and the return: lighthouse(url, ...) and
\* parseResults; browser.newPage(); setViewport, goto and evaluate
BwPage ==
    /\ bwPc = "page"
    /\ \E ok \in BOOLEAN :
          IF ~ok
          THEN /\ bwPc' = "catch"
               /\ UNCHANGED bwOutcome
          ELSE IF bwFn = "testMobileResponsiveness"
          THEN /\ bwPc' = "viewports"
               /\ UNCHANGED bwOutcome
          ELSE /\ bwPc' = "finally"
               /\ bwOutcome' = "return"
    /\ UNCHANGED <<bwFn, bwUrls, bwI, bwBrowser, bwOpen, bwLaunched,
                   bwViewports, bwResults>>
    /\ UNCHANGED nonBrowserVars

\* testMobileResponsiveness: one testViewport call of the for loop, which
\* catches its own errors, and the return after the last one
BwTestViewport ==
    /\ bwPc = "viewports"
    /\ IF Len(bwViewports) < ViewportCount
       THEN /\ \E result \in ViewportResults(Devices[Len(bwViewports) + 1]) :
                  bwViewports' = Append(bwViewports, result)
            /\ UNCHANGED <<bwPc, bwOutcome>>
       ELSE /\ bwPc' = "finally"
            /\ bwOutcome' = "return"
            /\ UNCHANGED bwViewports
    /\ UNCHANGED <<bwFn, bwUrls, bwI, bwBrowser, bwOpen, bwLaunched,
                   bwResults>>
    /\ UNCHANGED nonBrowserVars

\* the catch block: testMobileResponsiveness returns { url, error }, the
\* other two throw a new Error
BwCatch ==
    /\ bwPc = "catch"
    /\ bwOutcome' = IF bwFn = "testMobileResponsiveness"
                    THEN "returnError" ELSE "throw"
    /\ bwPc' = "finally"
    /\ UNCHANGED <<bwFn, bwUrls, bwI, bwBrowser, bwOpen, bwLaunched,
                   bwViewports, bwResults>>
    /\ UNCHANGED nonBrowserVars

\* the finally block, after which the call returns or throws
BwFinally ==
    /\ bwPc = "finally"
    /\ bwOpen' = Finally(bwOpen, bwBrowser, bwOutcome)
    /\ bwPc' = IF bwOutcome = "throw" THEN "thrown" ELSE "returned"
    /\ UNCHANGED <<bwFn, bwUrls, bwI, bwBrowser, bwLaunched, bwViewports,
                   bwOutcome, bwResults>>
    /\ UNCHANGED nonBrowserVars

\* back in the caller: the batch pushes the result (success: false / error
\* for a call that failed) and goes on with the next url
BwNext ==
    /\ bwPc \in {"returned", "thrown"}
    /\ bwResults' = Append(bwResults,
                           [url |-> bwUrls[bwI], ok |-> bwOutcome = "return",
                            value |-> IF bwFn = "testMobileResponsiveness"
                                         /\ bwOutcome = "return"
                                      THEN MobileReturn(bwUrls[bwI], bwViewports)
                                      ELSE [url |-> bwUrls[bwI]]])
    /\ bwI' = bwI + 1
    /\ bwPc' = IF bwI < Len(bwUrls) THEN "loop" ELSE "done"
    /\ UNCHANGED <<bwFn, bwUrls, bwBrowser, bwOpen, bwLaunched, bwViewports,
                   bwOutcome>>
    /\ UNCHANGED nonBrowserVars

NextBrowser ==
    \/ BwCall
    \/ BwEnsureScreenshotDir
    \/ BwLaunch
    \/ BwPage
    \/ BwTestViewport
    \/ BwCatch
    \/ BwFinally
    \/ BwNext

BrowserParked ==
    /\ bwFn = "runLighthouseAudit"
    /\ bwUrls = <<>>
    /\ bwI = 1
    /\ bwPc = "off"
    /\ bwBrowser = 0
    /\ bwOpen = {}
    /\ bwLaunched = 0
    /\ bwViewports = <<>>
    /\ bwOutcome = "none"
    /\ bwResults = <<>>

-----------------------------------------------------------------------------
FnParked ==
    /\ fnArgs = <<>>
    /\ fnPc = "off"
    /\ fnResult = <<>>

-----------------------------------------------------------------------------
(* One call of selectImportantUrls, followed by the slice step 10 takes of  *)
(* its result                                                               *)

UHome == Str("http:", <<"old", "site">>, <<"/">>, "")

\* http://old.site/p1, http://old.site/p2, ...
Page(i) == Str("http:", <<"old", "site">>, <<"/", "p", ToString(i)>>, "")

Pair(old, new) == [oldUrl |-> old, newUrl |-> new]

PairPool ==
    {Pair(UHome, UHome), Pair(UAs, UA), Pair(URoot, URoot), Pair(UB, UN),
     Pair(UA, UA)}

IsMatchedPair(u) == u.oldUrl = u.newUrl

IsRedirectedPair(u) == u.oldUrl # u.newUrl

\* the report's matched and redirected lists, their old URLs all different
ComparisonOf(pairs) ==
    [matched |-> SelectSeq(pairs, IsMatchedPair),
     redirected |-> SelectSeq(pairs, IsRedirectedPair)]

LongPairs(n) == [i \in 1..n |-> Pair(Page(i), Page(i))]

SelectComparisons ==
    {ComparisonOf(q) : q \in DistinctSeqsUpTo(PairPool, MaxPairs)}
    \cup {ComparisonOf(LongPairs(n)) : n \in 1..MaxLong}

GscRowPool ==
    {[url |-> u, clicks |-> t[1], impressions |-> t[2]] :
        u \in {UHome, UB, Page(MaxLong)}, t \in {<<1, 2>>, <<0, 1>>}}

InitSelect ==
    /\ fnArgs \in [comparison : SelectComparisons,
                   gscData : SeqsUpTo(GscRowPool, MaxGsc),
                   maxUrls : (0..MaxBudget) \cup {maxUrls}]
    /\ fnPc = "call"
    /\ fnResult = <<>>

\* const urlsToTest = selectImportantUrls(comparison, project.results.gscData)
SelectCall ==
    /\ fnPc = "call"
    /\ fnResult' = [urlsToTest |->
                        selectImportantUrls(fnArgs.comparison, fnArgs.gscData,
                                            fnArgs.maxUrls),
                    mobileUrlsToTest |-> <<>>]
    /\ fnPc' = "selected"
    /\ UNCHANGED fnArgs
    /\ UNCHANGED nonFnVars

\* const mobileUrlsToTest = urlsToTest.slice(0, 5)
MobileSliceStep ==
    /\ fnPc = "selected"
    /\ fnResult' = [fnResult EXCEPT
                      !.mobileUrlsToTest = Slice(fnResult.urlsToTest, 0,
                                                 MobileSlice)]
    /\ fnPc' = "returned"
    /\ UNCHANGED fnArgs
    /\ UNCHANGED nonFnVars

NextSelect ==
    \/ SelectCall
    \/ MobileSliceStep

-----------------------------------------------------------------------------
(* compareSEOData and calculateMatchScore.  A text is a sequence of         *)
(* characters, <<>> for a missing one; a similarity is kept as the fraction *)
(* num / den until it is rounded to hundredths; points are counted in       *)
(* hundredths of a point, in exact arithmetic.                              *)

ToLowerCase(str) == [i \in 1..Len(str) |-> IF str[i] = "A" THEN "a" ELSE str[i]]

Min3(a, b, c) == Min2(a, Min2(b, c))

\* one row of the matrix: row[j + 1] is matrix[i][j]
RECURSIVE LevCells(_, _, _, _)
LevCells(prev, ch, str1, row) ==
    LET j == Len(row)
    IN  IF j > Len(str1) THEN row
        ELSE LevCells(prev, ch, str1,
                 Append(row, IF ch = str1[j]
                             THEN prev[j]
                             ELSE Min3(prev[j] + 1, row[j] + 1, prev[j + 1] + 1)))

RECURSIVE LevRows(_, _, _, _)
LevRows(str1, str2, i, prev) ==
    IF i > Len(str2) THEN prev[Len(str1) + 1]
    ELSE LevRows(str1, str2, i + 1, LevCells(prev, str2[i], str1, <<i>>))

\* levenshteinDistance of seoComparisonService.js
seoLevenshteinDistance(str1, str2) ==
    LevRows(str1, str2, 1, [j \in 1..(Len(str1) + 1) |-> j - 1])

calculateTextSimilarity(str1, str2) ==
    IF str1 = <<>> \/ str2 = <<>> THEN [num |-> 0, den |-> 1]
    ELSE IF str1 = str2 THEN [num |-> 1, den |-> 1]
    ELSE LET longer == IF Len(str1) > Len(str2) THEN str1 ELSE str2
             shorter == IF Len(str1) > Len(str2) THEN str2 ELSE str1
         IN  [num |-> Len(longer) - seoLevenshteinDistance(longer, shorter),
              den |-> Len(longer)]

\* similarity >= 0.8
AtLeast08(similarity) == 5 * similarity.num >= 4 * similarity.den

\* Math.round(similarity * 100) / 100, in hundredths
Hundredths(similarity) ==
    (200 * similarity.num + similarity.den) \div (2 * similarity.den)

\* lengthDiff > 20 (titles), lengthDiff > 30 (descriptions)
TitleLengthDiff == 20
DescriptionLengthDiff == 30

\* Math.abs(a.length - b.length)
LengthDiff(a, b) == IF Len(a) > Len(b) THEN Len(a) - Len(b) ELSE Len(b) - Len(a)

\* similarity < 0.5
Below05(similarity) == 2 * similarity.num < similarity.den

NoIssue == "null"

compareTitles(oldTitle, newTitle) ==
    IF oldTitle = <<>> /\ newTitle = <<>>
    THEN [match |-> TRUE, similarity |-> 100, issue |-> NoIssue]
    ELSE IF oldTitle = <<>>
    THEN [match |-> FALSE, similarity |-> 0,
          issue |-> "Old page missing title tag"]
    ELSE IF newTitle = <<>>
    THEN [match |-> FALSE, similarity |-> 0,
          issue |-> "New page missing title tag"]
    ELSE LET similarity == calculateTextSimilarity(ToLowerCase(oldTitle),
                                                   ToLowerCase(newTitle))
         IN  [match |-> AtLeast08(similarity),
              similarity |-> Hundredths(similarity),
              issue |-> IF Below05(similarity)
                        THEN "Title significantly changed"
                        ELSE IF LengthDiff(oldTitle, newTitle) > TitleLengthDiff
                        THEN "Title length differs significantly"
                        ELSE IF ~AtLeast08(similarity)
                        THEN "Title partially changed"
                        ELSE NoIssue]

compareDescriptions(oldDesc, newDesc) ==
    IF oldDesc = <<>> /\ newDesc = <<>>
    THEN [match |-> TRUE, similarity |-> 100, issue |-> NoIssue]
    ELSE IF oldDesc = <<>>
    THEN [match |-> FALSE, similarity |-> 0,
          issue |-> "Old page missing meta description"]
    ELSE IF newDesc = <<>>
    THEN [match |-> FALSE, similarity |-> 0,
          issue |-> "New page missing meta description"]
    ELSE LET similarity == calculateTextSimilarity(ToLowerCase(oldDesc),
                                                   ToLowerCase(newDesc))
         IN  [match |-> AtLeast08(similarity),
              similarity |-> Hundredths(similarity),
              issue |-> IF Below05(similarity)
                        THEN "Description significantly changed"
                        ELSE IF LengthDiff(oldDesc, newDesc) > DescriptionLengthDiff
                        THEN "Description length differs significantly"
                        ELSE IF ~AtLeast08(similarity)
                        THEN "Description partially changed"
                        ELSE NoIssue]

validateH1(h1Array) == Len(h1Array) = 1

compareH1Tags(oldH1, newH1) ==
    LET similarity ==
            IF oldH1 # <<>> /\ newH1 # <<>> /\ oldH1[1] # <<>> /\ newH1[1] # <<>>
            THEN calculateTextSimilarity(ToLowerCase(oldH1[1]),
                                         ToLowerCase(newH1[1]))
            ELSE [num |-> 0, den |-> 1]
    IN  [match |-> validateH1(oldH1) /\ validateH1(newH1) /\ AtLeast08(similarity),
         similarity |-> Hundredths(similarity),
         oldValid |-> validateH1(oldH1),
         newValid |-> validateH1(newH1)]

\* s.replace(/\/$/, '')
DropTrailingSlash(s) ==
    IF EndsWithSlash(s)
    THEN [s EXCEPT !.pathname = SubSeq(s.pathname, 1, Len(s.pathname) - 1)]
    ELSE s

compareCanonical(oldCanonical, newCanonical, newUrl) ==
    [match |-> /\ newCanonical # NoUrl
               /\ newUrl # NoUrl
               /\ DropTrailingSlash(newCanonical) = DropTrailingSlash(newUrl)]

CreditProportional(field, weight) == field.similarity * weight

\* if (field.match) score += weight; else score += field.similarity * weight
Credit(field, weight) ==
    IF field.match THEN 100 * weight ELSE field.similarity * weight

TitleWeight == 30
DescriptionWeight == 25
H1Weight == 25
CanonicalWeight == 20

\* the four additions to score, and Math.round((score / maxScore) * 100)
calculateMatchScore(comparison) ==
    LET titlePoints == Credit(comparison.title, TitleWeight)
        descriptionPoints == Credit(comparison.description, DescriptionWeight)
        h1Points ==
            IF comparison.h1.match THEN 100 * H1Weight
            ELSE IF comparison.h1.oldValid /\ comparison.h1.newValid
            THEN comparison.h1.similarity * H1Weight
            ELSE IF comparison.h1.oldValid \/ comparison.h1.newValid
            THEN (100 * H1Weight) \div 2
            ELSE 0
        canonicalPoints ==
            IF comparison.canonical.match THEN 100 * CanonicalWeight ELSE 0
        score == titlePoints + descriptionPoints + h1Points + canonicalPoints
        maxScore == TitleWeight + DescriptionWeight + H1Weight + CanonicalWeight
    IN  [titlePoints |-> titlePoints,
         descriptionPoints |-> descriptionPoints,
         h1Points |-> h1Points,
         canonicalPoints |-> canonicalPoints,
         matchScore |-> (2 * score + maxScore) \div (2 * maxScore)]

SeverityStrict(matchScore) ==
    IF matchScore > 90 THEN "none"
    ELSE IF matchScore > 75 THEN "minor"
    ELSE IF matchScore > 50 THEN "moderate"
    ELSE "major"

\* matchScore >= 90 ? 'none' : matchScore >= 75 ? 'minor' : ...
Severity(matchScore) ==
    IF matchScore >= 90 THEN "none"
    ELSE IF matchScore >= 75 THEN "minor"
    ELSE IF matchScore >= 50 THEN "moderate"
    ELSE "major"

T5a == <<"a", "a", "a", "a", "a">>
T5b == <<"a", "a", "a", "a", "b">>
T5c == <<"a", "a", "a", "b", "b">>
T5u == <<"A", "a", "a", "a", "a">>

TitlePool == {<<>>, T5a, T5b, T5u}
DescriptionPool == {<<>>, T5a, T5c}
H1Pool == {T5a, T5b}

SeoPages ==
    [title : TitlePool, description : DescriptionPool,
     h1 : SeqsUpTo(H1Pool, MaxH1), canonicalUrl : {NoUrl, UA, UAs, UB}]

InitScore ==
    /\ fnArgs \in [oldSEO : {p \in SeoPages : p.canonicalUrl \in {NoUrl, UA}},
                   newSEO : SeoPages,
                   newUrl : {UA}]
    /\ fnPc = "call"
    /\ fnResult = <<>>

\* compareSEOData: the four field comparisons
CompareFields ==
    /\ fnPc = "call"
    /\ fnResult' =
          [title |-> compareTitles(fnArgs.oldSEO.title, fnArgs.newSEO.title),
           description |-> compareDescriptions(fnArgs.oldSEO.description,
                                               fnArgs.newSEO.description),
           h1 |-> compareH1Tags(fnArgs.oldSEO.h1, fnArgs.newSEO.h1),
           canonical |-> compareCanonical(fnArgs.oldSEO.canonicalUrl,
                                          fnArgs.newSEO.canonicalUrl,
                                          fnArgs.newUrl),
           points |-> <<>>,
           severity |-> ""]
    /\ fnPc' = "compared"
    /\ UNCHANGED fnArgs
    /\ UNCHANGED nonFnVars

\* const matchScore = calculateMatchScore(comparison) and the severity of the
\* returned object
ScoreCall ==
    /\ fnPc = "compared"
    /\ fnResult' = [fnResult EXCEPT
                      !.points = calculateMatchScore(fnResult),
                      !.severity =
                          Severity(calculateMatchScore(fnResult).matchScore)]
    /\ fnPc' = "returned"
    /\ UNCHANGED fnArgs
    /\ UNCHANGED nonFnVars

NextScore ==
    \/ CompareFields
    \/ ScoreCall

-----------------------------------------------------------------------------
(* One call of categorizeResults and one of findBrokenLinks on the same     *)
(* probe results                                                            *)

\* response.status of some answers, and 0 of a request that got none
ResponseStatuses == {0, 200, 204, 301, 404, 500}

ProbeResultPool ==
    {[url |-> u, statusCode |-> c, responseTime |-> 5] :
        u \in {UA, UB}, c \in ResponseStatuses}

InitCategorize ==
    /\ fnArgs \in [results : SeqsUpTo(ProbeResultPool, MaxResults)]
    /\ fnPc = "call"
    /\ fnResult = <<>>

CategorizeCall ==
    /\ fnPc = "call"
    /\ fnResult' = [categorized |-> categorizeResults(fnArgs.results),
                    brokenLinks |-> <<>>]
    /\ fnPc' = "categorized"
    /\ UNCHANGED fnArgs
    /\ UNCHANGED nonFnVars

FindBrokenLinksCall ==
    /\ fnPc = "categorized"
    /\ fnResult' = [fnResult EXCEPT
                      !.brokenLinks = findBrokenLinks(fnArgs.results)]
    /\ fnPc' = "returned"
    /\ UNCHANGED fnArgs
    /\ UNCHANGED nonFnVars

NextCategorize ==
    \/ CategorizeCall
    \/ FindBrokenLinksCall

-----------------------------------------------------------------------------
(* calculateImprovement and assessChange of performanceComparisonService.js. *)
(* Metric values are whole numbers of the metric's unit; a percentage is    *)
(* kept as the fraction num / den, den > 0.                                 *)

calculateChange(oldValue, newValue, lowerIsBetter) ==
    IF oldValue = 0 THEN [num |-> 0, den |-> 1]
    ELSE [num |-> (newValue - oldValue) * 100, den |-> oldValue]

\* if (oldValue === 0) return 0; change = (new - old) / old * 100;
\* return lowerIsBetter ? -change : change
calculateImprovement(oldValue, newValue, lowerIsBetter) ==
    IF oldValue = 0 THEN [num |-> 0, den |-> 1]
    ELSE LET change == (newValue - oldValue) * 100
         IN  [num |-> IF lowerIsBetter THEN 0 - change ELSE change,
              den |-> oldValue]

\* improvement >= n, improvement > n
FracAtLeast(improvement, n) == improvement.num >= n * improvement.den
FracAbove(improvement, n) == improvement.num > n * improvement.den

assessChange(improvement) ==
    IF FracAtLeast(improvement, 10) THEN "significant improvement"
    ELSE IF FracAtLeast(improvement, 5) THEN "moderate improvement"
    ELSE IF FracAbove(improvement, 0 - 5) THEN "minimal change"
    ELSE IF FracAbove(improvement, 0 - 10) THEN "moderate regression"
    ELSE "significant regression"

InitImprove ==
    /\ fnArgs \in [oldValue : 0..MaxMetric, newValue : 0..MaxMetric,
                   lowerIsBetter : BOOLEAN]
    /\ fnPc = "call"
    /\ fnResult = <<>>

\* improvement: calculateImprovement(old, new)
ImprovementCall ==
    /\ fnPc = "call"
    /\ fnResult' = [improvement |->
                        calculateImprovement(fnArgs.oldValue, fnArgs.newValue,
                                             fnArgs.lowerIsBetter),
                    assessment |-> ""]
    /\ fnPc' = "improvement"
    /\ UNCHANGED fnArgs
    /\ UNCHANGED nonFnVars

\* assessment: assessChange(calculateImprovement(old, new))
AssessCall ==
    /\ fnPc = "improvement"
    /\ fnResult' = [fnResult EXCEPT
                      !.assessment = assessChange(fnResult.improvement)]
    /\ fnPc' = "returned"
    /\ UNCHANGED fnArgs
    /\ UNCHANGED nonFnVars

NextImprove ==
    \/ ImprovementCall
    \/ AssessCall

-----------------------------------------------------------------------------
(* parseSitemap on a set of sitemap documents: the uploaded file and the    *)
(* documents behind the sitemap URLs.  fnResult.stack holds the pending     *)
(* calls of parseSitemap, innermost last; the model follows the recursion   *)
(* down to MaxDepth calls.                                                  *)

SitemapFile == "file"
SitemapUrls == {"s1", "s2"}

\* what parsing a document gives: a sitemapindex with its <loc> entries, a
\* urlset with its <loc> entries, or an error (unreadable, not XML, neither)
SitemapDocs ==
    {[kind |-> "sitemapindex", locs |-> q] : q \in SeqsUpTo(SitemapUrls, MaxLocs)}
    \cup {[kind |-> "urlset", locs |-> q] : q \in {<<>>, <<UA>>}}
    \cup {[kind |-> "invalid", locs |-> <<>>]}

InitSitemap ==
    /\ fnArgs \in [{SitemapFile} \cup SitemapUrls -> SitemapDocs]
    /\ fnPc = "call"
    /\ fnResult = <<>>

Frame(path) == [path |-> path, at |-> "read", next |-> 1, urls |-> <<>>]

\* the innermost call returns value (a list) or throws ("thrown"): the
\* caller's loop concatenates the list, or logs the error, and goes on
Unwind(stack, value) ==
    LET rest == SubSeq(stack, 1, Len(stack) - 1)
        n == Len(rest)
    IN  IF value = "thrown" THEN rest
        ELSE [rest EXCEPT ![n].urls = @ \o value]

\* parseSitemap(project.files.oldSitemap.path, true)
SitemapCall ==
    /\ fnPc = "call"
    /\ fnResult' = [stack |-> <<Frame(SitemapFile)>>,
                    fetches |-> [u \in SitemapUrls |-> 0],
                    urls |-> <<>>]
    /\ fnPc' = "running"
    /\ UNCHANGED fnArgs
    /\ UNCHANGED nonFnVars

\* the innermost call reads the file or fetches the URL and parses it
SitemapRead ==
    /\ fnPc = "running"
    /\ LET stack == fnResult.stack
           n == Len(stack)
           path == stack[n].path
           doc == fnArgs[path]
           fetches == IF path \in SitemapUrls
                      THEN [fnResult.fetches EXCEPT ![path] = @ + 1]
                      ELSE fnResult.fetches
       IN  /\ stack[n].at = "read"
           /\ IF doc.kind = "sitemapindex"
              THEN /\ fnResult' = [fnResult EXCEPT
                                     !.fetches = fetches,
                                     !.stack[n].at = "loop"]
                   /\ fnPc' = "running"
              ELSE IF n = 1
              THEN /\ fnResult' = [fnResult EXCEPT
                                     !.fetches = fetches,
                                     !.stack = <<>>,
                                     !.urls = doc.locs]
                   /\ fnPc' = IF doc.kind = "invalid" THEN "thrown" ELSE "returned"
              ELSE /\ fnResult' = [fnResult EXCEPT
                                     !.fetches = fetches,
                                     !.stack = Unwind(stack,
                                                  IF doc.kind = "invalid"
                                                  THEN "thrown" ELSE doc.locs)]
                   /\ fnPc' = "running"
    /\ UNCHANGED fnArgs
    /\ UNCHANGED nonFnVars

\* for (const sitemap of sitemaps): await parseSitemap(sitemapUrl, false)
SitemapNested ==
    /\ fnPc = "running"
    /\ LET stack == fnResult.stack
           n == Len(stack)
           locs == fnArgs[stack[n].path].locs
       IN  /\ stack[n].at = "loop"
           /\ stack[n].next <= Len(locs)
           /\ n < MaxDepth
           /\ fnResult' = [fnResult EXCEPT
                             !.stack = Append([stack EXCEPT ![n].next = @ + 1],
                                              Frame(locs[stack[n].next]))]
    /\ UNCHANGED <<fnArgs, fnPc>>
    /\ UNCHANGED nonFnVars

\* the loop of a sitemap index is over: return urls
SitemapReturn ==
    /\ fnPc = "running"
    /\ LET stack == fnResult.stack
           n == Len(stack)
       IN  /\ stack[n].at = "loop"
           /\ stack[n].next > Len(fnArgs[stack[n].path].locs)
           /\ IF n = 1
              THEN /\ fnResult' = [fnResult EXCEPT
                                     !.stack = <<>>, !.urls = stack[n].urls]
                   /\ fnPc' = "returned"
              ELSE /\ fnResult' = [fnResult EXCEPT
                                     !.stack = Unwind(stack, stack[n].urls)]
                   /\ fnPc' = "running"
    /\ UNCHANGED fnArgs
    /\ UNCHANGED nonFnVars

NextSitemap ==
    \/ SitemapCall
    \/ SitemapRead
    \/ SitemapNested
    \/ SitemapReturn

-----------------------------------------------------------------------------
(* normalizeUrl applied to a string and then to its own result *)

NormalizeInputs ==
    {Str(p, h, path, q) :
        p \in {"http:", ""},
        h \in {<<"old", "site">>, <<"www", "old", "site">>,
               <<"www", "www", "old", "site">>, <<"WWW", "Old", "site">>},
        path \in {<<>>, <<"/">>, <<"/", "a">>, <<"/", "a", "/">>,
                  <<"/", "a", "/", "/">>},
        q \in {"", "?q"}}

InitNormalize ==
    /\ fnArgs \in [url : NormalizeInputs]
    /\ fnPc = "call"
    /\ fnResult = <<>>

\* normalizeUrl(url)
NormalizeCall ==
    /\ fnPc = "call"
    /\ fnResult' = [once |-> normalizeUrl(fnArgs.url), twice |-> NoUrl]
    /\ fnPc' = "normalized"
    /\ UNCHANGED fnArgs
    /\ UNCHANGED nonFnVars

\* normalizeUrl(normalizeUrl(url))
NormalizeAgain ==
    /\ fnPc = "normalized"
    /\ fnResult' = [fnResult EXCEPT !.twice = normalizeUrl(fnResult.once)]
    /\ fnPc' = "returned"
    /\ UNCHANGED fnArgs
    /\ UNCHANGED nonFnVars

NextNormalize ==
    \/ NormalizeCall
    \/ NormalizeAgain

-----------------------------------------------------------------------------
(* generateSummary on the comparisons step 7 of processProject collects     *)

\* compareSEOData: the four field comparisons, matchScore and severity
compareSEOData(oldSEO, newSEO, newUrl) ==
    LET comparison ==
            [title |-> compareTitles(oldSEO.title, newSEO.title),
             description |-> compareDescriptions(oldSEO.description,
                                                 newSEO.description),
             h1 |-> compareH1Tags(oldSEO.h1, newSEO.h1),
             canonical |-> compareCanonical(oldSEO.canonicalUrl,
                                            newSEO.canonicalUrl, newUrl)]
        matchScore == calculateMatchScore(comparison).matchScore
    IN  [title |-> comparison.title,
         description |-> comparison.description,
         h1 |-> comparison.h1,
         canonical |-> comparison.canonical,
         matchScore |-> matchScore,
         severity |-> Severity(matchScore)]

\* the bucket the forEach body of generateSummary increments for comp, or
\* "none" when no branch of the if / else-if chain is taken
SummaryBucket(comp) ==
    IF comp.matchScore >= 95 THEN "perfectMatches"
    ELSE IF comp.severity = "minor" THEN "minorIssues"
    ELSE IF comp.severity = "moderate" THEN "moderateIssues"
    ELSE IF comp.severity = "major" THEN "majorIssues"
    ELSE "none"

BucketCount(comparisons, bucket) ==
    Cardinality({i \in DOMAIN comparisons : SummaryBucket(comparisons[i]) = bucket})

RECURSIVE TotalScore(_)
TotalScore(comparisons) ==
    IF comparisons = <<>> THEN 0
    ELSE Head(comparisons).matchScore + TotalScore(Tail(comparisons))

\* the issue counters (missingTitles, ..., canonicalMismatches) are counted
\* apart from the buckets and are not part of the record
generateSummary(comparisons) ==
    IF comparisons = <<>>
    THEN [totalCompared |-> 0, perfectMatches |-> 0, minorIssues |-> 0,
          moderateIssues |-> 0, majorIssues |-> 0, avgMatchScore |-> 0]
    ELSE [totalCompared |-> Len(comparisons),
          perfectMatches |-> BucketCount(comparisons, "perfectMatches"),
          minorIssues |-> BucketCount(comparisons, "minorIssues"),
          moderateIssues |-> BucketCount(comparisons, "moderateIssues"),
          majorIssues |-> BucketCount(comparisons, "majorIssues"),
          avgMatchScore |-> (2 * TotalScore(comparisons) + Len(comparisons))
                               \div (2 * Len(comparisons))]

\* the old page of every pair: title, description and one h1, canonical to
\* itself
SummaryOldPage ==
    [title |-> T5a, description |-> T5a, h1 |-> <<T5a>>, canonicalUrl |-> UA]

\* the new pages crawled
SummaryNewPages ==
    {p \in SeoPages : Len(p.h1) <= 1 /\ p.canonicalUrl \in {NoUrl, UA}}

\* urlsToValidate with what crawlUrl returns for each pair
InitSummary ==
    /\ fnArgs \in SeqsUpTo([oldSEO : {SummaryOldPage}, newSEO : SummaryNewPages,
                            newUrl : {UA}], MaxComparisons)
    /\ fnPc = "loop"
    /\ fnResult = [comparisons |-> <<>>]

\* one turn of for (const pair of urlsToValidate): seoComparisons.push(...)
SeoComparePair ==
    /\ fnPc = "loop"
    /\ Len(fnResult.comparisons) < Len(fnArgs)
    /\ LET pair == fnArgs[Len(fnResult.comparisons) + 1]
       IN  fnResult' = [comparisons |->
                           Append(fnResult.comparisons,
                                  compareSEOData(pair.oldSEO, pair.newSEO,
                                                 pair.newUrl))]
    /\ UNCHANGED <<fnArgs, fnPc>>
    /\ UNCHANGED nonFnVars

\* const seoSummary = generateSummary(seoComparisons)
SummaryCall ==
    /\ fnPc = "loop"
    /\ Len(fnResult.comparisons) = Len(fnArgs)
    /\ fnResult' = [comparisons |-> fnResult.comparisons,
                    summary |-> generateSummary(fnResult.comparisons)]
    /\ fnPc' = "summarised"
    /\ UNCHANGED fnArgs
    /\ UNCHANGED nonFnVars

NextSummary ==
    \/ SeoComparePair
    \/ SummaryCall

-----------------------------------------------------------------------------
(* comparePerformance on the Lighthouse results of step 9                   *)

\* urlObj.pathname + urlObj.search (pathname is "/" when the URL has no
\* path); the string itself when new URL() throws
getUrlPath(url) ==
    IF Throws(ParseUrl(url)) THEN url
    ELSE Str("", <<>>,
             IF ParseUrl(url).pathname = <<>> THEN <<"/">>
             ELSE ParseUrl(url).pathname,
             ParseUrl(url).search)

\* successfulNew.find(r => getUrlPath(r.url) === oldPath): the index of the
\* first such result, 0 for undefined
FindByPath(successfulNew, oldPath) ==
    LET hits == {j \in DOMAIN successfulNew :
                    getUrlPath(successfulNew[j].url) = oldPath}
    IN  IF hits = {} THEN 0 ELSE CHOOSE j \in hits : \A k \in hits : j <= k

\* for (const oldResult of successfulOld) ... comparisons.push(comparison);
\* the scores and metrics of a comparison are left out
RECURSIVE PerformanceLoop(_, _, _)
PerformanceLoop(successfulOld, successfulNew, comparisons) ==
    IF successfulOld = <<>> THEN comparisons
    ELSE LET oldResult == Head(successfulOld)
             oldPath == getUrlPath(oldResult.url)
             found == FindByPath(successfulNew, oldPath)
         IN  PerformanceLoop(Tail(successfulOld), successfulNew,
                IF found # 0
                THEN Append(comparisons,
                            [url |-> oldPath, oldUrl |-> oldResult.url,
                             newUrl |-> successfulNew[found].url])
                ELSE comparisons)

IsSuccess(r) == r.success

comparePerformance(oldResults, newResults) ==
    PerformanceLoop(SelectSeq(oldResults, IsSuccess),
                    SelectSeq(newResults, IsSuccess), <<>>)

NA == Str("http:", <<"new", "site">>, <<"/", "a">>, "")

\* matched pairs (same path on both sites) and redirected pairs
PerformancePairs == {Pair(UA, NA), Pair(UB, UN), Pair(UA, UN), Pair(UB, NA)}

\* urlsToTest: pairs with distinct old URLs; the URLs whose audit fails
InitPerformance ==
    /\ fnArgs \in [urlsToTest : {q \in SeqsUpTo(PerformancePairs, MaxTested) :
                                    \A i, j \in DOMAIN q :
                                        q[i].oldUrl = q[j].oldUrl => i = j},
                   failing : SUBSET {UA, UB, NA, UN}]
    /\ fnPc = "call"
    /\ fnResult = <<>>

\* the two runBatchAudits batches
PerformanceAudits ==
    /\ fnPc = "call"
    /\ fnResult' = [oldPerformance |->
                        runBatchAudits(OldSide(fnArgs.urlsToTest), fnArgs.failing),
                    newPerformance |->
                        runBatchAudits(NewSide(fnArgs.urlsToTest), fnArgs.failing),
                    comparisons |-> <<>>]
    /\ fnPc' = "audited"
    /\ UNCHANGED fnArgs
    /\ UNCHANGED nonFnVars

\* const performanceComparison = comparePerformance(oldPerformance, newPerformance)
ComparePerformanceCall ==
    /\ fnPc = "audited"
    /\ fnResult' = [fnResult EXCEPT !.comparisons =
                       comparePerformance(fnResult.oldPerformance,
                                          fnResult.newPerformance)]
    /\ fnPc' = "returned"
    /\ UNCHANGED fnArgs
    /\ UNCHANGED nonFnVars

NextPerformance ==
    \/ PerformanceAudits
    \/ ComparePerformanceCall

-----------------------------------------------------------------------------
(* runAuditProcess on the Audit record createAudit saved                    *)

AuditStatuses == {"pending", "running", "completed", "failed"}

\* Audit.findByIdAndUpdate(auditId, {status, ...}): the record as stored
\* after it; errorMessage is written only by the catch block
Updated(record, status, errorMessage) ==
    [status |-> status,
     errorMessage |-> errorMessage,
     writes |-> Append(record.writes, status),
     error |-> record.error]

\* an awaited call of the try block rejects: the catch block runs with error
AuditThrow(message) ==
    /\ fnPc' = "catch"
    /\ fnResult' = [fnResult EXCEPT !.error = message]

\* createAudit has saved the record with status 'pending' and called
\* runAuditProcess(audit._id, url, useHeadless)
InitAudit ==
    /\ fnArgs \in [url : ProbeUrlPool,
                   triggeredBy : {"manual", "scheduled", "api"},
                   useHeadless : BOOLEAN]
    /\ fnPc = "created"
    /\ fnResult = [status |-> "pending", errorMessage |-> "",
                   writes |-> <<"pending">>, error |-> ""]

\* await Audit.findByIdAndUpdate(auditId, { status: 'running' })
AuditRunning(ok) ==
    /\ fnPc = "created"
    /\ IF ok
       THEN /\ fnResult' = Updated(fnResult, "running", fnResult.errorMessage)
            /\ fnPc' = "lighthouse"
       ELSE AuditThrow("update rejected")
    /\ UNCHANGED fnArgs
    /\ UNCHANGED nonFnVars

\* await runLighthouseAudit(url)
AuditLighthouse(ok) ==
    /\ fnPc = "lighthouse"
    /\ IF ok THEN fnPc' = "crawl" /\ UNCHANGED fnResult
       ELSE AuditThrow("Lighthouse audit failed")
    /\ UNCHANGED fnArgs
    /\ UNCHANGED nonFnVars

\* await crawlUrl(url, { useHeadless }); checkRobotsTxt and checkSitemap
\* return false on their own errors
AuditCrawl(ok) ==
    /\ fnPc = "crawl"
    /\ IF ok THEN fnPc' = "complete" /\ UNCHANGED fnResult
       ELSE AuditThrow("Failed to crawl URL")
    /\ UNCHANGED fnArgs
    /\ UNCHANGED nonFnVars

\* completedAudit = await Audit.findByIdAndUpdate(auditId, updateData, ...)
AuditCompleted(ok) ==
    /\ fnPc = "complete"
    /\ IF ok
       THEN /\ fnResult' = Updated(fnResult, "completed", fnResult.errorMessage)
            /\ fnPc' = "notify"
       ELSE AuditThrow("update rejected")
    /\ UNCHANGED fnArgs
    /\ UNCHANGED nonFnVars

\* await notifyAuditComplete(completedAudit), inside the try block
AuditNotifyComplete(ok) ==
    /\ fnPc = "notify"
    /\ IF ok THEN fnPc' = "cache" /\ UNCHANGED fnResult
       ELSE AuditThrow("notification failed")
    /\ UNCHANGED fnArgs
    /\ UNCHANGED nonFnVars

\* await cacheAuditResult(url, completedAudit): it catches its own errors
AuditCache ==
    /\ fnPc = "cache"
    /\ fnPc' = "done"
    /\ UNCHANGED <<fnArgs, fnResult>>
    /\ UNCHANGED nonFnVars

\* the catch block: findByIdAndUpdate(auditId, {status: 'failed',
\* errorMessage: error.message, duration}); when it rejects, so does
\* runAuditProcess
AuditCatch(ok) ==
    /\ fnPc = "catch"
    /\ IF ok
       THEN /\ fnResult' = Updated(fnResult, "failed", fnResult.error)
            /\ fnPc' = "notifyFailure"
       ELSE fnPc' = "rejected" /\ UNCHANGED fnResult
    /\ UNCHANGED fnArgs
    /\ UNCHANGED nonFnVars

\* await notifyAuditFailure(failedAudit)
AuditNotifyFailure(ok) ==
    /\ fnPc = "notifyFailure"
    /\ fnPc' = IF ok THEN "failed" ELSE "rejected"
    /\ UNCHANGED <<fnArgs, fnResult>>
    /\ UNCHANGED nonFnVars

NextAudit ==
    \/ \E ok \in BOOLEAN : AuditRunning(ok)
    \/ \E ok \in BOOLEAN : AuditLighthouse(ok)
    \/ \E ok \in BOOLEAN : AuditCrawl(ok)
    \/ \E ok \in BOOLEAN : AuditCompleted(ok)
    \/ \E ok \in BOOLEAN : AuditNotifyComplete(ok)
    \/ AuditCache
    \/ \E ok \in BOOLEAN : AuditCatch(ok)
    \/ \E ok \in BOOLEAN : AuditNotifyFailure(ok)

-----------------------------------------------------------------------------
(* The specifications *)

InitSpecUrls ==
    InitUrls /\ ProbeParked /\ PipeParked /\ BrowserParked /\ FnParked

SpecUrls == InitSpecUrls /\ [][NextUrls]_vars

InitSpecProbe ==
    InitProbe /\ UrlsParked /\ PipeParked /\ BrowserParked /\ FnParked

SpecProbe == InitSpecProbe /\ [][NextProbe]_vars

\* any number of startProcessing requests up to MaxRequests
InitSpecPipeline ==
    /\ db = NewProject
    /\ prPc = [r \in Requests |-> "idle"]
    /\ prK = [r \in Requests |-> 1]
    /\ prDoc = [r \in Requests |-> NewDoc]
    /\ prSaves = [r \in Requests |-> <<>>]
    /\ prErr = [r \in Requests |-> NoError]
    /\ files = AllFiles
    /\ down = {}
    /\ UrlsParked /\ ProbeParked /\ BrowserParked /\ FnParked

SpecPipeline == InitSpecPipeline /\ [][NextPipeline]_vars

\* one startProcessing request and the processProject run it starts
InitSpecRun ==
    /\ db = NewProject
    /\ prPc = [r \in Requests |-> IF r = 1 THEN "idle" ELSE "off"]
    /\ prK = [r \in Requests |-> 1]
    /\ prDoc = [r \in Requests |-> NewDoc]
    /\ prSaves = [r \in Requests |-> <<>>]
    /\ prErr = [r \in Requests |-> NoError]
    /\ files \in SUBSET AllFiles
    /\ down \in SUBSET SiteUrls
    /\ UrlsParked /\ ProbeParked /\ BrowserParked /\ FnParked

SpecRun == InitSpecRun /\ [][NextPipeline]_vars

\* the positions where a request or a run awaits a call (findById, a file
\* read, an HTTP or browser batch, a save)
Awaiting == {"starting", "load", "announce", "work", "store", "complete", "catch"}

Positions == Awaiting \cup {"off", "idle", "refused", "done", "failed", "rejected"}

\* the call r awaits returns or throws: r leaves its position.  In every
\* awaiting position one of StartSave, RunLoad, Announce, Work, Store,
\* Complete, Catch is enabled for r, and each of them moves prPc[r]
Settles(r) ==
    /\ prPc[r] \in Awaiting
    /\ \E p \in Positions \ {prPc[r]} : prPc' = [prPc EXCEPT ![r] = p]

\* every awaited call (file read, HTTP, browser, store) eventually returns or
\* throws
RunFairness == \A r \in Requests : WF_prPc(Settles(r))

SpecRunFair == InitSpecRun /\ [][NextPipeline]_vars /\ RunFairness

\* one serial batch of calls of a browser-launching function
InitSpecBrowser ==
    InitBrowser /\ UrlsParked /\ ProbeParked /\ PipeParked /\ FnParked

SpecBrowser == InitSpecBrowser /\ [][NextBrowser]_vars

\* one call of selectImportantUrls and the slice taken for the mobile tests
InitSpecSelect ==
    InitSelect /\ UrlsParked /\ ProbeParked /\ PipeParked /\ BrowserParked

SpecSelect == InitSpecSelect /\ [][NextSelect]_vars

\* one call of compareSEOData, which ends with calculateMatchScore
InitSpecScore ==
    InitScore /\ UrlsParked /\ ProbeParked /\ PipeParked /\ BrowserParked

SpecScore == InitSpecScore /\ [][NextScore]_vars

\* categorizeResults and findBrokenLinks on one list of probe results
InitSpecCategorize ==
    InitCategorize /\ UrlsParked /\ ProbeParked /\ PipeParked /\ BrowserParked

SpecCategorize == InitSpecCategorize /\ [][NextCategorize]_vars

\* one call of calculateImprovement and the assessment of its result
InitSpecImprove ==
    InitImprove /\ UrlsParked /\ ProbeParked /\ PipeParked /\ BrowserParked

SpecImprove == InitSpecImprove /\ [][NextImprove]_vars

\* one top-level call of parseSitemap
InitSpecSitemap ==
    InitSitemap /\ UrlsParked /\ ProbeParked /\ PipeParked /\ BrowserParked

SpecSitemap == InitSpecSitemap /\ [][NextSitemap]_vars

\* normalizeUrl called on a string and on its own result
InitSpecNormalize ==
    InitNormalize /\ UrlsParked /\ ProbeParked /\ PipeParked /\ BrowserParked

SpecNormalize == InitSpecNormalize /\ [][NextNormalize]_vars

\* the SEO comparisons of step 7 and their summary
InitSpecSummary ==
    InitSummary /\ UrlsParked /\ ProbeParked /\ PipeParked /\ BrowserParked

SpecSummary == InitSpecSummary /\ [][NextSummary]_vars

\* the audits of step 9 and their comparison
InitSpecPerformance ==
    InitPerformance /\ UrlsParked /\ ProbeParked /\ PipeParked /\ BrowserParked

SpecPerformance == InitSpecPerformance /\ [][NextPerformance]_vars

\* one runAuditProcess
InitSpecAudit ==
    InitAudit /\ UrlsParked /\ ProbeParked /\ PipeParked /\ BrowserParked

SpecAudit == InitSpecAudit /\ [][NextAudit]_vars

-----------------------------------------------------------------------------
(* Claims about checkMultipleUrls *)

Count(q, P(_)) == Cardinality({k \in 1..Len(q) : P(q[k])})

\* attempts of task i that have been started
Started(i) == Len(tHist[i]) + tInflight[i]

\* the entry task i pushed, once it has pushed one
Entry(i) == results[tSlot[i]]

\* C4: once the batch has resolved, results has as many entries as urls and
\* each input URL, counted with multiplicity, has exactly one non-null
\* result carrying that URL, for every retryAttempts and concurrency.
C4_OneResultPerUrl ==
    pbPc = "resolved" =>
        /\ Len(results) = Len(pbUrls)
        /\ \A k \in 1..Len(results) : results[k] # NullResult
        /\ \A u \in ProbeUrlPool :
              LET IsU(x) == x = u
                  HasU(x) == x.url = u
              IN  Count(results, HasU) = Count(pbUrls, IsU)

C6_LinearBackoff ==
    \A i \in Tasks :
        /\ \A k \in 1..Len(tSleeps[i]) : tSleeps[i][k] = pbDelay * k
        /\ Len(tSleeps[i]) = IF tSt[i] = "backoff" THEN Len(tHist[i])
                             ELSE IF Started(i) = 0 THEN 0
                             ELSE Started(i) - 1
        /\ pbRetry = 1 => tSleeps[i] = <<>>
        /\ (pbRetry = 3 /\ tHist[i] = <<500, 500, 200>>) =>
              /\ tSlot[i] > 0
              /\ Entry(i).statusCode = 200
              /\ tSleeps[i] = <<pbDelay * 1, pbDelay * 2>>

\* the 500, 500, 200 scenario under retryAttempts = 3 has run
C6_Witness ==
    \E i \in Tasks :
        /\ pbRetry = 3
        /\ tHist[i] = <<500, 500, 200>>
        /\ tSt[i] = "done"

\* C7: with an onProgress callback, it is called once per URL, right after
\* that URL's entry was appended; the k-th call carries completed = k and
\* total = the number of URLs, under every interleaving; calls do not
\* overlap.
C7_ProgressOrdered ==
    IF pbHasProgress
    THEN /\ Len(progressLog) = Len(results)
         /\ \A k \in 1..Len(progressLog) :
               /\ progressLog[k].completed = k
               /\ progressLog[k].total = Len(pbUrls)
         /\ \A i \in Tasks :
               tSlot[i] > 0 => progressLog[tSlot[i]].currentUrl = pbUrls[i]
         /\ Cardinality({i \in Tasks : tSlot[i] > 0}) = Len(progressLog)
         /\ cbActive <= 1
         /\ pbPc = "resolved" => Len(progressLog) = Len(pbUrls)
    ELSE progressLog = <<>> /\ cbActive = 0

\* two URLs probed concurrently, the second one finished first
C7_Witness ==
    /\ pbHasProgress
    /\ pbPc = "resolved"
    /\ Len(pbUrls) = 2
    /\ pbUrls[1] # pbUrls[2]
    /\ tSlot[2] = 1
    /\ Len(progressLog) = 2

\* C8: never more than concurrency URL tasks are started and unfinished
\* (probe, retries, backoff, callback and trailing delay included), and a
\* queued task starts only in the step in which the trailing delay of
\* another task ends.
C8_ConcurrencyBound ==
    /\ [](Pending(tSt) <= pbConcurrency)
    /\ [][\A i \in Tasks :
             (tSt[i] = "queued" /\ tSt'[i] # "queued") =>
                 \E j \in Tasks : tSt[j] = "trailing" /\ tSt'[j] = "done"]_vars

\* with concurrency 1 the second URL is being probed after the first is done
C8_Witness ==
    /\ pbConcurrency = 1
    /\ Len(pbUrls) = 2
    /\ tSt[1] = "done"
    /\ tSt[2] = "probing"

-----------------------------------------------------------------------------
(* Claims about the pipeline controller *)

\* C9: across the Project records persisted by one run (the save of
\* startProcessing and the save on failure included) the percentage never
\* decreases from one save to the next, and a persisted percentage is 100
\* exactly when the persisted status is 'completed'.
C9_ProgressMonotone100IffCompleted ==
    \A r \in Requests :
        /\ Len(prSaves[r]) = 2 =>
              prSaves[r][1].progress <= prSaves[r][2].progress
        /\ \A k \in 1..Len(prSaves[r]) :
              prSaves[r][k].progress = 100 <=> prSaves[r][k].status = "completed"

\* C10: in every stored state of the Project, status = 'completed' exactly
\* when processingStatus.stage = 'completed' and progress = 100.
C10_CompletedIffStageCompleted ==
    db.status = "completed" <=> (db.stage = "completed" /\ db.progress = 100)

\* the percentage of the last stage of run r whose work had finished when
\* its try block threw (0 when none had)
LastCompletedProgress(r) ==
    LET k == IF prErr[r].from \in {"store", "complete"} THEN prK[r]
             ELSE prK[r] - 1
    IN  IF k = 0 THEN 0 ELSE Stages[k].progress

\* C11: when a stage of a run has thrown and the catch block has saved, the
\* stored Project has status 'failed', stage 'failed', the error message,
\* and the percentage of the last stage completed before the exception.
C11_FailurePreservesLastCompleted ==
    prPc[1] = "failed" =>
        /\ db.status = "failed"
        /\ db.stage = "failed"
        /\ db.error = prErr[1].message
        /\ db.error # ""
        /\ db.progress = LastCompletedProgress(1)

\* the URLs the batch behind the field n of the Project visits
VisitedFor(n) ==
    LET pairs == RunComparison(files).matched \o RunComparison(files).redirected
        tested == RunUrlsToTest(files)
    IN  CASE n = "oldSiteStatus" -> Range(RunOldUrls(files))
          [] n = "newSiteStatus" -> Range(RunNewUrls(files))
          [] n = "seoValidation" -> Range(OldSide(pairs)) \cup Range(NewSide(pairs))
          [] n = "performanceValidation" ->
                Range(OldSide(tested)) \cup Range(NewSide(tested))
          [] n = "mobileResponsiveness" ->
                Range(OldSide(Slice(tested, 0, MobileSlice)))
                \cup Range(NewSide(Slice(tested, 0, MobileSlice)))

PerUrlOutputs ==
    {"oldSiteStatus", "newSiteStatus", "seoValidation",
     "performanceValidation", "mobileResponsiveness"}

\* the stored field n has an entry reporting a failure of u
RecordedFailure(n, u) ==
    \E i \in 1..Len(db.results[n].entries) :
        /\ db.results[n].entries[i].url = u
        /\ ~db.results[n].entries[i].ok

\* C12: a URL that fails inside a stage does not stop the run, and once the
\* run has completed every URL that failed in a stage is recorded as failed
\* in that stage's stored result.
C12_UrlFailuresRecorded ==
    /\ \A r \in Requests : prErr[r].message \in {"", SaveError, ParseError}
    /\ prPc[1] = "done" =>
          /\ db.status = "completed"
          /\ \A n \in PerUrlOutputs : \A u \in down \cap VisitedFor(n) :
                RecordedFailure(n, u)

\* the percentages a run persists, in order
Percentages ==
    <<0>> \o [k \in 1..Len(Stages) |-> Stages[k].progress] \o <<100>>

\* C13, state part: the percentages are 10, 25, 35, 50, 60, 75, 85, 90, 92,
\* 96; while a stage works or saves its output its tag and percentage are
\* the stored ones; when a stage's work starts, every field an earlier
\* stage assigned to the Project is stored; a completed run stored 100.
C13_StageState ==
    /\ [k \in 1..Len(Stages) |-> Stages[k].progress]
          = <<10, 25, 35, 50, 60, 75, 85, 90, 92, 96>>
    /\ prPc[1] \in {"work", "store"} =>
          /\ db.stage = Stages[prK[1]].stage
          /\ db.progress = Stages[prK[1]].progress
    /\ prPc[1] = "work" =>
          \A j \in 1..(prK[1] - 1) : \A n \in Assigned(j, files) :
              /\ db.results[n].set
              /\ db.results[n] = prDoc[1].results[n]
              /\ n \notin prDoc[1].dirty
    /\ prPc[1] = "done" => (db.progress = 100 /\ prK[1] = Len(Stages))

\* C13, step part: the stage index never goes back and advances by one,
\* only when the work of the stage (and the save of its output) is over;
\* work starts only from the save that announced the stage; the stored
\* percentage changes only to the next one of the list.
C13_StageStep ==
    /\ prK'[1] \in {prK[1], prK[1] + 1}
    /\ prK'[1] = prK[1] + 1 => prPc[1] \in {"work", "store"}
    /\ (prPc'[1] = "work" /\ prPc[1] # "work") => prPc[1] = "announce"
    /\ (prPc'[1] = "announce" /\ prPc[1] # "announce") =>
          \/ prPc[1] = "load"
          \/ prPc[1] \in {"work", "store"} /\ prK'[1] = prK[1] + 1
    /\ (prPc'[1] = "complete" /\ prPc[1] # "complete") =>
          prPc[1] \in {"work", "store"} /\ prK[1] = Len(Stages)
    /\ db'.progress # db.progress =>
          \E i \in 1..(Len(Percentages) - 1) :
              db.progress = Percentages[i] /\ db'.progress = Percentages[i + 1]

\* C13 amended: one run visits the stages in the fixed order with
\* percentages 10, 25, 35, 50, 60, 75, 85, 90, 92, 96, 100 without skipping
\* or repeating one; tag and percentage are stored before the stage's work
\* starts; a stage starts only after the previous one has finished; every
\* field a stage assigns to the Project is stored no later than the save
\* that announces the next stage (the URL lists of steps 1 and 2 are
\* assigned by step 3).
C13_LinearStages == [](C13_StageState) /\ [][C13_StageStep]_vars

\* a run with all four files has completed and every field is stored
C13_Witness ==
    /\ prPc[1] = "done"
    /\ files = AllFiles
    /\ db.progress = 100
    /\ \A n \in OutputNames : db.results[n].set

\* the fields of the Project whose value the work of stage k computes: the
\* URL lists come from step 1 (oldUrls, newUrls), step 3 computes only the
\* redirect map, which is no field of the Project
Produced(k, fs) ==
    IF Stages[k].stage = "parsing_site maps" THEN {"urls"}
    ELSE IF Stages[k].stage = "parsing_redirects" THEN {}
    ELSE Assigned(k, fs)

\* C13 as stated, its last part: when the next stage has been announced and
\* its work starts, every output of the earlier stages is stored in the
\* Project.
C13_OutputsSavedByNextStage ==
    prPc[1] = "work" =>
        \A j \in 1..(prK[1] - 1) : \A n \in Produced(j, files) :
            db.results[n].set

\* request r has a processProject run that has not ended
Running(r) ==
    prPc[r] \in {"load", "announce", "work", "store", "complete", "catch"}

\* C14: whatever startProcessing requests arrive, at most one processProject
\* run is working on the Project at any time.
C14_SingleWriter ==
    Cardinality({r \in Requests : Running(r)}) <= 1

-----------------------------------------------------------------------------
(* Claims about the browser-launching functions *)

\* the call of the batch has returned or thrown, or none is under way
BwOutsideCall == bwPc \in {"loop", "returned", "thrown", "done"}

\* C15: every browser launched by runLighthouseAudit, testMobileResponsiveness
\* or crawlWithPuppeteer is closed before the call returns or throws, on the
\* success path and on every failure path, and a serial batch never has more
\* than one browser open.
C15_BrowserClosedOnReturn ==
    /\ BwOutsideCall => bwOpen = {}
    /\ Cardinality(bwOpen) <= 1

\* the second call of a batch launched its browser, failed afterwards and
\* has completed with the browser closed
C15_Witness ==
    /\ bwPc \in {"returned", "thrown"}
    /\ bwOutcome \in {"throw", "returnError"}
    /\ bwBrowser = 2
    /\ bwLaunched = 2
    /\ bwOpen = {}

-----------------------------------------------------------------------------
(* Claims about selectImportantUrls *)

\* the pairs the call was given, in iteration order
SelectAll == fnArgs.comparison.matched \o fnArgs.comparison.redirected

\* C16: selectImportantUrls returns at most budget pairs (the budget is 10),
\* none of them twice; when no more pairs than the budget are available it
\* returns every pair exactly once; a budget of 0 gives the empty list; the
\* mobile stage tests exactly the first min(5, length) pairs of the result.
C16_SelectionWithinBudget ==
    fnPc = "returned" =>
        LET r == fnResult.urlsToTest
            m == fnResult.mobileUrlsToTest
        IN  /\ Len(r) <= fnArgs.maxUrls
            /\ \A i, j \in 1..Len(r) : r[i] = r[j] => i = j
            /\ Range(r) \subseteq Range(SelectAll)
            /\ Len(SelectAll) <= fnArgs.maxUrls =>
                  /\ Range(r) = Range(SelectAll)
                  /\ Len(r) = Len(SelectAll)
            /\ fnArgs.maxUrls = 0 => r = <<>>
            /\ m = SubSeq(r, 1, Min2(MobileSlice, Len(r)))

\* eleven pairs were available: ten are returned and five go to the mobile
\* tests
C16_Witness ==
    /\ fnPc = "returned"
    /\ Len(SelectAll) = maxUrls + 1
    /\ fnArgs.maxUrls = maxUrls
    /\ Len(fnResult.urlsToTest) = maxUrls
    /\ Len(fnResult.mobileUrlsToTest) = MobileSlice


\* the path of the pair's old or new URL is exactly "/"
IsRootPair(u) ==
    \/ ParseUrl(u.oldUrl).pathname = <<"/">>
    \/ ParseUrl(u.newUrl).pathname = <<"/">>

\* the order C17 describes: the pairs of the root path, then the pairs the
\* analytics rows name by clicks + impressions descending, then the others
\* in iteration order
RootFirstOrder ==
    LET rootPairs == SelectSeq(SelectAll, IsRootPair)
        withTraffic ==
            GscLoop(SortByTraffic(fnArgs.gscData, <<>>), SelectAll,
                    Len(SelectAll) + 1, rootPairs,
                    {rootPairs[i].oldUrl : i \in 1..Len(rootPairs)})
        Other(u) == u \notin Range(withTraffic)
    IN  withTraffic \o SelectSeq(SelectAll, Other)

\* C17: the returned list is ordered: first every pair whose old or new URL
\* path is exactly "/", then the pairs with analytics rows by clicks +
\* impressions descending, then the remaining pairs in iteration order, cut
\* at the budget; a pair whose path is not "/" is never taken by the first
\* rule.
C17_RootPairsFirst ==
    fnPc = "returned" =>
        fnResult.urlsToTest = Slice(RootFirstOrder, 0, fnArgs.maxUrls)

-----------------------------------------------------------------------------
(* compareUrls with no old URLs *)

\* C19: compareUrls called with an empty old URL list returns a report whose
\* matched, redirected, missing and new counts are all zero and whose
\* matchRate is 0, whatever the new URL list and the redirect map.
C19_EmptyOldAllZero ==
    (cuPc = "returned" /\ cuOld = <<>>) =>
        /\ cuResult.summary.matchedCount = 0
        /\ cuResult.summary.redirectedCount = 0
        /\ cuResult.summary.missingCount = 0
        /\ cuResult.summary.newCount = 0
        /\ cuResult.summary.matchRate = 0

-----------------------------------------------------------------------------
(* Claims about calculateMatchScore *)

\* what the H1 comparison adds when credit follows the similarity alone
H1Proportional(h1) ==
    IF h1.oldValid /\ h1.newValid THEN h1.similarity * H1Weight
    ELSE IF h1.oldValid \/ h1.newValid THEN (100 * H1Weight) \div 2
    ELSE 0

\* C20 as stated: for every similarity in [0,1] the title adds similarity x 30
\* and the description similarity x 25; the H1 adds similarity x 25 when both
\* sides are valid, 12.5 when one is, 0 when neither is; the canonical adds
\* 20 or 0.
C20_SimilarityTimesWeight ==
    fnPc = "returned" =>
        /\ fnResult.points.titlePoints = fnResult.title.similarity * TitleWeight
        /\ fnResult.points.descriptionPoints =
              fnResult.description.similarity * DescriptionWeight
        /\ fnResult.points.h1Points = H1Proportional(fnResult.h1)
        /\ fnResult.points.canonicalPoints \in {0, 100 * CanonicalWeight}

\* C20, amended: a field that matches (similarity at least 0.8) adds its full
\* weight; only a field that does not match adds similarity x weight (title
\* 30, description 25, H1 25 when both sides are valid); the H1 adds 12.5
\* when one side is valid and 0 when neither is; the canonical adds 20 or 0.
C20_PartialCredit ==
    fnPc = "returned" =>
        /\ fnResult.points.titlePoints =
              IF fnResult.title.match THEN 100 * TitleWeight
              ELSE fnResult.title.similarity * TitleWeight
        /\ fnResult.points.descriptionPoints =
              IF fnResult.description.match THEN 100 * DescriptionWeight
              ELSE fnResult.description.similarity * DescriptionWeight
        /\ fnResult.points.h1Points =
              IF fnResult.h1.match THEN 100 * H1Weight
              ELSE H1Proportional(fnResult.h1)
        /\ fnResult.points.canonicalPoints =
              IF fnResult.canonical.match THEN 100 * CanonicalWeight ELSE 0
        /\ fnResult.title.match => fnResult.title.similarity >= 80
        /\ fnResult.description.match => fnResult.description.similarity >= 80

\* a title that matches at similarity 0.8 got 30 points while a description
\* of similarity 0.6 got 15 and an H1 valid on one side got 12.5
C20_Witness ==
    /\ fnPc = "returned"
    /\ fnResult.title.match /\ fnResult.title.similarity = 80
    /\ fnResult.points.titlePoints = 3000
    /\ ~fnResult.description.match /\ fnResult.description.similarity = 60
    /\ fnResult.points.descriptionPoints = 1500
    /\ fnResult.h1.oldValid /\ ~fnResult.h1.newValid
    /\ fnResult.points.h1Points = 1250

-----------------------------------------------------------------------------
(* Claims about categorizeResults and findBrokenLinks *)

BucketNames == {"ok", "redirects", "clientErrors", "serverErrors", "networkErrors"}

\* the results whose status code lies in lo..hi, in their order
WithStatusIn(probeResults, lo, hi) ==
    LET In(x) == x.statusCode >= lo /\ x.statusCode <= hi
    IN  SelectSeq(probeResults, In)

\* C18: categorizeResults puts every probe result in exactly one of the five
\* buckets, the five counts add up to summary.total, ok holds exactly the
\* results of status 200, redirects those of 300-399, clientErrors those of
\* 400-499, serverErrors those of 500 and more, and networkErrors exactly the
\* results of statusCode 0; findBrokenLinks returns exactly the clientErrors
\* results.
C18_FiveBuckets ==
    fnPc = "returned" =>
        LET c == fnResult.categorized
            s == c.summary
        IN  /\ \A x \in Range(fnArgs.results) :
                  Cardinality({b \in BucketNames : x \in Range(c[b])}) = 1
            /\ s.okCount + s.redirectCount + s.clientErrorCount
                  + s.serverErrorCount + s.networkErrorCount = s.total
            /\ s.total = Len(fnArgs.results)
            /\ c.ok = WithStatusIn(fnArgs.results, 200, 200)
            /\ c.redirects = WithStatusIn(fnArgs.results, 300, 399)
            /\ c.clientErrors = WithStatusIn(fnArgs.results, 400, 499)
            /\ \A x \in Range(fnArgs.results) :
                  x \in Range(c.serverErrors) <=> x.statusCode >= 500
            /\ c.networkErrors = WithStatusIn(fnArgs.results, 0, 0)
            /\ fnResult.brokenLinks =
                  [i \in 1..Len(c.clientErrors) |->
                      [url |-> c.clientErrors[i].url,
                       statusCode |-> c.clientErrors[i].statusCode]]

-----------------------------------------------------------------------------
(* Claims about compareTitles and compareDescriptions *)

MissingIssues ==
    {"Old page missing title tag", "New page missing title tag",
     "Old page missing meta description", "New page missing meta description"}

\* the field comparison reports an absent value
ReportsMissing(field) ==
    /\ ~field.match
    /\ field.similarity = 0
    /\ field.issue \in MissingIssues

\* C21: compareTitles and compareDescriptions return match = false,
\* similarity = 0 and a "missing" issue whenever the value is absent on the
\* old side, on the new side, or on both sides.
C21_AbsentNeverMatches ==
    fnPc \in {"compared", "returned"} =>
        /\ (fnArgs.oldSEO.title = <<>> \/ fnArgs.newSEO.title = <<>>)
              => ReportsMissing(fnResult.title)
        /\ (fnArgs.oldSEO.description = <<>> \/ fnArgs.newSEO.description = <<>>)
              => ReportsMissing(fnResult.description)

-----------------------------------------------------------------------------
(* Claims about compareSEOData *)

\* C22: for every pair of SEO records compareSEOData returns an integer
\* matchScore between 0 and 100, and a severity that is 'none' exactly when
\* matchScore >= 90, 'minor' when 75 <= matchScore < 90, 'moderate' when
\* 50 <= matchScore < 75 and 'major' when matchScore < 50.
C22_ScoreAndSeverity ==
    fnPc = "returned" =>
        LET m == fnResult.points.matchScore
        IN  /\ m \in 0..100
            /\ fnResult.severity = "none" <=> m >= 90
            /\ fnResult.severity = "minor" <=> (75 <= m /\ m < 90)
            /\ fnResult.severity = "moderate" <=> (50 <= m /\ m < 75)
            /\ fnResult.severity = "major" <=> m < 50

\* a score that sits on a threshold: 75 is 'minor'
C22_Witness ==
    /\ fnPc = "returned"
    /\ fnResult.points.matchScore = 75
    /\ fnResult.severity = "minor"

-----------------------------------------------------------------------------
(* Claims about calculateImprovement *)

\* C23: for a lower-is-better metric and non-negative old and new values
\* calculateImprovement(old, new) is greater than 0 exactly when new < old,
\* also when old = 0.
C23_ImprovementSign ==
    (fnPc \in {"improvement", "returned"} /\ fnArgs.lowerIsBetter) =>
        (FracAbove(fnResult.improvement, 0)
            <=> fnArgs.newValue < fnArgs.oldValue)

\* a lower-is-better metric that fell from 8 to 6 improved by 25 percent
C23_Witness ==
    /\ fnPc = "returned"
    /\ fnArgs.lowerIsBetter
    /\ fnArgs.oldValue = 8 /\ fnArgs.newValue = 6
    /\ fnResult.improvement = [num |-> 200, den |-> 8]
    /\ fnResult.assessment = "significant improvement"

-----------------------------------------------------------------------------
(* Claims about testMobileResponsiveness *)

\* the issues of the viewports of vs from position i on that did not fail
RECURSIVE IssuesFrom(_, _)
IssuesFrom(vs, i) ==
    IF i > Len(vs) THEN <<>>
    ELSE (IF "error" \in DOMAIN vs[i] THEN <<>> ELSE vs[i].issues)
         \o IssuesFrom(vs, i + 1)

\* the values testMobileResponsiveness returned after its viewport loop
MobileValues ==
    IF bwFn = "testMobileResponsiveness"
    THEN {bwResults[i].value : i \in {j \in 1..Len(bwResults) : bwResults[j].ok}}
    ELSE {}

\* C24: in testMobileResponsiveness a viewport whose test throws yields a
\* record with error and device and adds nothing to overallIssues; the other
\* viewports are still tested, in the order mobile, tablet, desktop;
\* overallIssues is the concatenation of the issues of the viewports that did
\* not fail; responsive is true exactly when overallIssues is empty, so also
\* when every viewport failed.
C24_ViewportFailuresIsolated ==
    \A v \in MobileValues :
        /\ Len(v.viewports) = ViewportCount
        /\ \A i \in 1..ViewportCount :
              /\ v.viewports[i].device = Devices[i]
              /\ DOMAIN v.viewports[i] \in {{"device", "error"},
                                            {"device", "issues"}}
        /\ v.overallIssues = IssuesFrom(v.viewports, 1)
        /\ v.responsive <=> v.overallIssues = <<>>
        /\ (\A i \in 1..ViewportCount : "error" \in DOMAIN v.viewports[i])
              => v.responsive

\* the mobile viewport failed, the tablet viewport was still tested and found
\* an issue, which is the only entry of overallIssues
C24_Witness ==
    \E v \in MobileValues :
        /\ "error" \in DOMAIN v.viewports[1]
        /\ "error" \notin DOMAIN v.viewports[2]
        /\ v.viewports[2].issues # <<>>
        /\ "error" \notin DOMAIN v.viewports[3]
        /\ v.viewports[3].issues = <<>>
        /\ v.overallIssues = v.viewports[2].issues
        /\ ~v.responsive

-----------------------------------------------------------------------------
(* Claims about parseSitemap *)

\* C25: parseSitemap fetches each sitemap URL at most once per top-level call
\* and never nests deeper than 4 levels below it, whatever the sitemap
\* indices reference, themselves and cycles included.
C25_VisitedOnceDepthCapped ==
    fnPc \in {"running", "returned", "thrown"} =>
        /\ \A u \in SitemapUrls : fnResult.fetches[u] <= 1
        /\ Len(fnResult.stack) - 1 <= 4

-----------------------------------------------------------------------------
(* Claims about normalizeUrl *)

\* C26: normalizeUrl is idempotent: for every string u, parseable as a URL or
\* not, normalizeUrl(normalizeUrl(u)) = normalizeUrl(u).
C26_NormalizeIdempotent ==
    fnPc = "returned" => fnResult.twice = fnResult.once


-----------------------------------------------------------------------------
(* C27: every run started by startProcessing eventually leaves the stored   *)
(* Project with status 'completed' or 'failed', whichever awaited call      *)
(* throws, the save in the catch block included.                            *)

\* processProject(id) has been called for request r
RunStarted(r) == prPc[r] = "load"

Settled == db.status \in {"completed", "failed"}

C27_RunSettles == \A r \in Requests : RunStarted(r) ~> Settled


-----------------------------------------------------------------------------
(* C30: in the summary generateSummary returns, every comparison is counted *)
(* in exactly one bucket: perfectMatches + minorIssues + moderateIssues +   *)
(* majorIssues = totalCompared, for comparisons scoring 90 to 94 as well.   *)

C30_BucketsPartition ==
    fnPc = "summarised" =>
        fnResult.summary.perfectMatches + fnResult.summary.minorIssues
          + fnResult.summary.moderateIssues + fnResult.summary.majorIssues
        = fnResult.summary.totalCompared


-----------------------------------------------------------------------------
(* C29: every selected pair whose old-site and new-site audits both         *)
(* succeeded yields exactly one performance comparison, carrying the pair's *)
(* oldUrl and newUrl, redirected pairs with different paths included, and   *)
(* there are never more comparisons than selected pairs.                    *)

BothAudited(i) ==
    fnResult.oldPerformance[i].success /\ fnResult.newPerformance[i].success

ComparisonsOf(pair) ==
    {k \in DOMAIN fnResult.comparisons :
        /\ fnResult.comparisons[k].oldUrl = pair.oldUrl
        /\ fnResult.comparisons[k].newUrl = pair.newUrl}

C29_OneComparisonPerPair ==
    fnPc = "returned" =>
        /\ \A i \in DOMAIN fnArgs.urlsToTest :
              BothAudited(i) =>
                  Cardinality(ComparisonsOf(fnArgs.urlsToTest[i])) = 1
        /\ Len(fnResult.comparisons) <= Len(fnArgs.urlsToTest)


-----------------------------------------------------------------------------
(* C28: during runAuditProcess the stored status of the Audit record only   *)
(* moves pending -> running -> completed or pending -> running -> failed;   *)
(* 'completed' and 'failed' are terminal, so a record stored as 'completed' *)
(* is never rewritten to 'failed', whatever throws after the update.        *)

StatusMoves ==
    {<<"pending", "running">>, <<"running", "completed">>, <<"running", "failed">>}

C28_StatusStep ==
    fnResult'.status # fnResult.status =>
        <<fnResult.status, fnResult'.status>> \in StatusMoves

C28_TerminalStatuses == [][C28_StatusStep]_vars

=============================================================================
